---- MODULE Spec2Model ----
(***************************************************************************)
(* HoloStage.js: the simulation step of the engine (game.js): key state,  *)
(* control resolution, attacks, physics and collision, combat, reaping.   *)
(*                                                                         *)
(* Units.  The engine computes with floating point numbers; the model     *)
(* uses exact integers in fixed point:                                     *)
(*   lengths (pos, size)      1/1000 of a world unit                       *)
(*   velocities (vx, vy, speed, jumpForce, projectileSpeed)                *)
(*                            1/1000 of a world unit per second            *)
(*   gravity                  1/1000 of a world unit per second^2          *)
(*   times (dt, performance.now(), lastAttack, cooldown, life)             *)
(*                            milliseconds                                 *)
(* health, damage and score are plain numbers.  All values the model      *)
(* draws are chosen so that every product v * dt / 1000 is exact.         *)
(***************************************************************************)
EXTENDS Integers, Sequences, FiniteSets, TLC

VARIABLES
    keyState,      \* the keys currently held (keyState[k] is true)
    clock,         \* performance.now(), in ms
    running,       \* game.running
    lastTime,      \* game.lastTime, in ms
    options,       \* game.options
    scenes,        \* game.scenes: scene name -> scene
    currentScene,  \* the name of game.currentScene, or Null
    pending,       \* number of loop callbacks requestAnimationFrame holds
    scoreboard,    \* game.scoreboard: whether one is attached, and its rows
    canvas,        \* what the most recent render() painted, in paint order
    lastCall,      \* record of the most recent call of game.scene,
                   \* game.useScene or game.loadSceneFromDOM: its arguments,
                   \* the exception it threw or Null, the registered names
                   \* and the active scene before it, and the number of
                   \* calls so far (bounds the exploration)
    frames,        \* number of frames run so far (bounds the exploration)
    last,          \* record of the most recent update(): its inputs, the
                   \* entity list before it, the list entering combat, and
                   \* the damage events of its combat
    lastFrame      \* record of the most recent animation frame: how many
                   \* loop callbacks it called, how many of them ran
                   \* update(), and how many ran render()

vars == <<keyState, clock, running, lastTime, options, scenes, currentScene,
          pending, scoreboard, canvas, lastCall, frames, last, lastFrame>>

(***************************************************************************)
(* Bounds of the exploration.                                              *)
(***************************************************************************)
MaxFrames == 5

\* start() is not called while requestAnimationFrame holds this many callbacks
MaxPending == 2

\* the page calls scene(), useScene() and loadSceneFromDOM() this many times
MaxCalls == 3

\* frame intervals, in ms, that the browser may deliver
Dts == {100, 1000}

\* JavaScript null / undefined where a string is expected
Null == "null"

\* ent.controls === null
NullControls == [null |-> TRUE]

\* ent.weapon undefined / null
NoWeapon == [null |-> TRUE]

(***************************************************************************)
(* Small helpers.                                                          *)
(***************************************************************************)
Min(a, b) == IF a < b THEN a ELSE b

Max(a, b) == IF a > b THEN a ELSE b

\* v * dt with v per second and dt in ms
Times(v, dt) == (v * dt) \div 1000

\* the indices of seq whose element satisfies Test, in order
Indices(seq, Test(_)) ==
    SelectSeq([k \in 1..Len(seq) |-> k], LAMBDA k: Test(seq[k]))

\* Array.prototype.find on the index: 0 when nothing matches
FindIndex(seq, Test(_)) ==
    LET hit == Indices(seq, Test) IN IF hit = <<>> THEN 0 ELSE hit[1]

(***************************************************************************)
(* CONTROL_SCHEMES                                                         *)
(***************************************************************************)
CONTROL_SCHEMES ==
    [arrows |-> [left |-> "ArrowLeft", right |-> "ArrowRight", up |-> "ArrowUp",
                 down |-> "ArrowDown", jump |-> " ", attack |-> "Control"],
     wasd   |-> [left |-> "a", right |-> "d", up |-> "w", down |-> "s",
                 jump |-> " ", attack |-> "f"],
     ijkl   |-> [left |-> "j", right |-> "l", up |-> "i", down |-> "k",
                 jump |-> "u", attack |-> "o"]]

(***************************************************************************)
(* Weapons.  A weapon object is a function from field names to values; a  *)
(* field the object does not have is outside its domain.                   *)
(***************************************************************************)
DefaultWeaponDefinitions ==
    [pulse  |-> [name |-> "Pulse", damage |-> 10, cooldown |-> 400,
                 projectileSpeed |-> 12000, color |-> "#ff6ad5",
                 size |-> <<300, 300>>],
     bow    |-> [name |-> "Bow", damage |-> 8, cooldown |-> 650,
                 projectileSpeed |-> 11000, color |-> "#8ddcff",
                 size |-> <<250, 250>>],
     pistol |-> [name |-> "Pistol", damage |-> 14, cooldown |-> 250,
                 projectileSpeed |-> 18000, color |-> "#ffd166",
                 size |-> <<220, 220>>]]

\* a weapon given as a string: the string is kept in the field str
WeaponName(s) == [str |-> s]

IsWeaponString(w) == DOMAIN w = {"str"}

\* parseProps of a bare word w is {w: true}
parseProps(s) == (s :> TRUE)

resolveWeaponSpec(spec, definitions) ==
    IF spec = NoWeapon THEN NoWeapon
    ELSE IF IsWeaponString(spec) /\ spec.str \in DOMAIN definitions
         THEN definitions[spec.str] @@ [name |-> spec.str]
    ELSE LET parsed == IF IsWeaponString(spec) THEN parseProps(spec.str) ELSE spec
         IN  IF /\ "preset" \in DOMAIN parsed
                /\ parsed.preset \in DOMAIN definitions
             THEN parsed @@ definitions[parsed.preset] @@ [name |-> parsed.preset]
             ELSE parsed

(***************************************************************************)
(* Entity store.                                                           *)
(***************************************************************************)
\* the defaults of addEntity; dead and life are undefined in the code until
\* written (read as false and as 0), damage and owner exist on projectiles
EntityDefaults ==
    [name |-> "entity", x |-> 0, y |-> 0, z |-> 0, w |-> 1000, h |-> 1000,
     color |-> "#ffffff", physics |-> "none", controls |-> NullControls,
     vx |-> 0, vy |-> 0, speed |-> 4000, jumpForce |-> 10000,
     onGround |-> FALSE, moveMode |-> "platformer", team |-> Null,
     health |-> 100, maxHealth |-> 100, score |-> 0,
     weapon |-> [name |-> "pulse", damage |-> 10, cooldown |-> 400,
                 projectileSpeed |-> 12000, color |-> "#ff6ad5",
                 size |-> <<300, 300>>],
     trackScore |-> FALSE, lastAttack |-> 0, kind |-> "actor",
     dead |-> FALSE, life |-> 0, damage |-> 0, owner |-> Null]

\* createEmptyScene; nextId numbers the entity objects the scene creates, so
\* that an entity keeps its identity when the list is filtered
createEmptyScene(name) ==
    [name |-> name, entities |-> <<>>, timelineEvents |-> <<>>,
     multiplayer |-> TRUE, time |-> 0, nextId |-> 1]

\* scene.at(t, fn), t in ms.  fn names what the callback does: "count" adds
\* one to a counter of its own, "snap" copies the scene's entity list as it
\* is when called, "throw" counts and then throws, "stop" counts and calls
\* game.stop().  calls and seen are the callback's counter and copy; flags
\* is what every callback notes when called: the fired flags it finds on the
\* scene's events, its own among them.
at(scn, t, fn) ==
    [scn EXCEPT !.timelineEvents =
        Append(@, [time |-> t, fn |-> fn, fired |-> FALSE,
                   calls |-> 0, seen |-> <<>>, flags |-> <<>>])]

\* scene.addEntity(config): the defaults overridden by config, pushed last
addEntity(scn, config) ==
    [scn EXCEPT
        !.entities = Append(@, [id |-> scn.nextId] @@ config @@ EntityDefaults),
        !.nextId = @ + 1]

(***************************************************************************)
(* tryAttack(ent, scene, dt), ent being scene.entities[i]; now is          *)
(* performance.now().  Returns the scene after the call.                   *)
(***************************************************************************)
\* Number.isFinite(parseFloat(weapon[f])) ? parseFloat(weapon[f]) : dflt
NumberOr(weapon, f, dflt) == IF f \in DOMAIN weapon THEN weapon[f] ELSE dflt

\* the weapon an attack of ent uses: Object.assign({}, defaultWeapon, resolved)
AttackWeapon(ent) ==
    resolveWeaponSpec(ent.weapon, options.weaponDefinitions) @@ options.defaultWeapon

\* CooldownRejects with the boundary on the wrong side: an attack exactly one
\* cooldown after the previous one is rejected
CooldownRejectsLate(ent, weapon, now) ==
    now - ent.lastAttack <= NumberOr(weapon, "cooldown", 200)

\* the cooldown gate of tryAttack: TRUE when the attack is rejected
CooldownRejects(ent, weapon, now) ==
    now - ent.lastAttack < NumberOr(weapon, "cooldown", 200)

\* the config of the projectile an attack of ent spawns
ProjectileConfig(ent, weapon) ==
    LET dir == IF ent.vx >= 0 THEN 1 ELSE -1
        damage == NumberOr(weapon, "damage", 10)
        projectileSpeed == NumberOr(weapon, "projectileSpeed", 10000)
        size == IF "size" \in DOMAIN weapon /\ Len(weapon.size) = 2
                THEN weapon.size ELSE <<300, 300>>
    IN  [name |-> ent.name \o "-shot",
         x |-> ent.x + (IF dir > 0 THEN ent.w ELSE -200),
         y |-> ent.y + ent.h \div 2,
         z |-> ent.z,
         w |-> size[1], h |-> size[2],
         color |-> IF "color" \in DOMAIN weapon THEN weapon.color ELSE "#ff6ad5",
         physics |-> "none", controls |-> NullControls,
         vx |-> projectileSpeed * dir, vy |-> 0,
         damage |-> damage, owner |-> ent.name, team |-> ent.team,
         kind |-> "projectile", life |-> 3000]

tryAttack(scn, i, now) ==
    LET ent == scn.entities[i] IN
    IF ent.weapon = NoWeapon THEN scn
    ELSE LET weapon == AttackWeapon(ent) IN
         IF CooldownRejects(ent, weapon, now) THEN scn
         ELSE LET fired == [ent EXCEPT !.lastAttack = now]
              IN  addEntity([scn EXCEPT !.entities[i] = fired],
                            ProjectileConfig(fired, weapon))

(***************************************************************************)
(* checkOverlap(a, b) and resolveCollision(dynamicEnt, staticEnt)          *)
(***************************************************************************)
\* the test with a's left edge allowed to touch b's right edge
checkOverlapLeftClosed(a, b) ==
    /\ a.x <= b.x + b.w
    /\ a.x + a.w > b.x
    /\ a.y < b.y + b.h
    /\ a.y + a.h > b.y

checkOverlap(a, b) ==
    /\ a.x < b.x + b.w
    /\ a.x + a.w > b.x
    /\ a.y < b.y + b.h
    /\ a.y + a.h > b.y

\* resolveCollision resolving the horizontal axis when the overlaps are equal
resolveCollisionTieHorizontal(dynamicEnt, staticEnt) ==
    LET ax1 == dynamicEnt.x
        ay1 == dynamicEnt.y
        overlapX == Min(ax1 + dynamicEnt.w, staticEnt.x + staticEnt.w)
                    - Max(ax1, staticEnt.x)
        overlapY == Min(ay1 + dynamicEnt.h, staticEnt.y + staticEnt.h)
                    - Max(ay1, staticEnt.y)
    IN  IF overlapX <= 0 \/ overlapY <= 0 THEN dynamicEnt
        ELSE IF overlapX <= overlapY
             THEN [dynamicEnt EXCEPT
                      !.x = IF ax1 < staticEnt.x THEN @ - overlapX
                            ELSE @ + overlapX,
                      !.vx = 0]
             ELSE IF ay1 < staticEnt.y
                  THEN [dynamicEnt EXCEPT !.y = @ - overlapY,
                                          !.onGround = TRUE, !.vy = 0]
                  ELSE [dynamicEnt EXCEPT !.y = @ + overlapY, !.vy = 0]

\* returns dynamicEnt after the call; staticEnt is not written
resolveCollision(dynamicEnt, staticEnt) ==
    LET ax1 == dynamicEnt.x
        ay1 == dynamicEnt.y
        ax2 == dynamicEnt.x + dynamicEnt.w
        ay2 == dynamicEnt.y + dynamicEnt.h
        bx1 == staticEnt.x
        by1 == staticEnt.y
        bx2 == staticEnt.x + staticEnt.w
        by2 == staticEnt.y + staticEnt.h
        overlapX == Min(ax2, bx2) - Max(ax1, bx1)
        overlapY == Min(ay2, by2) - Max(ay1, by1)
    IN  IF overlapX <= 0 \/ overlapY <= 0 THEN dynamicEnt
        ELSE IF overlapX < overlapY
             THEN [dynamicEnt EXCEPT
                      !.x = IF ax1 < bx1 THEN @ - overlapX ELSE @ + overlapX,
                      !.vx = 0]
             ELSE IF ay1 < by1
                  THEN [dynamicEnt EXCEPT !.y = @ - overlapY,
                                          !.onGround = TRUE, !.vy = 0]
                  ELSE [dynamicEnt EXCEPT !.y = @ + overlapY, !.vy = 0]

(***************************************************************************)
(* update(dt): the pass over scene.entities (forEach visits the entities   *)
(* the list held when it began; entities pushed meanwhile are not visited) *)
(***************************************************************************)
\* controls[action] && keyState[controls[action]]
Held(controls, action, keys) ==
    action \in DOMAIN controls /\ controls[action] \in keys

\* the control block with the up and down keys read in every mode
ControlStepAnyMode(scn, i, keys, now) ==
    LET ent == scn.entities[i]
        controls == ent.controls
    IN  IF controls = NullControls THEN scn
        ELSE
        LET speed == IF ent.speed = 0 THEN 4000 ELSE ent.speed
            free == ent.moveMode = "topdown" \/ ent.physics = "none"
            vx == (IF Held(controls, "right", keys) THEN speed ELSE 0)
                  - (IF Held(controls, "left", keys) THEN speed ELSE 0)
            vy == (IF free THEN 0 ELSE ent.vy)
                  - (IF Held(controls, "up", keys) THEN speed ELSE 0)
                  + (IF Held(controls, "down", keys) THEN speed ELSE 0)
            moved == [ent EXCEPT !.vx = vx, !.vy = vy]
            scn1 == [scn EXCEPT !.entities[i] = moved]
        IN  IF Held(controls, "attack", keys) THEN tryAttack(scn1, i, now)
            ELSE scn1

\* the control block of update for entity i (the lines under if (controls))
ControlStep(scn, i, keys, now) ==
    LET ent == scn.entities[i]
        controls == ent.controls
    IN  IF controls = NullControls THEN scn
        ELSE
        LET speed == IF ent.speed = 0 THEN 4000 ELSE ent.speed
            free == ent.moveMode = "topdown" \/ ent.physics = "none"
            vx == (IF Held(controls, "right", keys) THEN speed ELSE 0)
                  - (IF Held(controls, "left", keys) THEN speed ELSE 0)
            vy == (IF free THEN 0 ELSE ent.vy)
                  - (IF free /\ Held(controls, "up", keys) THEN speed ELSE 0)
                  + (IF free /\ Held(controls, "down", keys) THEN speed ELSE 0)
            jumped == IF /\ Held(controls, "jump", keys)
                         /\ ent.physics = "dynamic"
                         /\ ent.onGround
                      THEN [ent EXCEPT !.vy = -ent.jumpForce, !.onGround = FALSE]
                      ELSE ent
            moved == [jumped EXCEPT !.vx = vx, !.vy = vy]
            scn1 == [scn EXCEPT !.entities[i] = moved]
        IN  IF Held(controls, "attack", keys) THEN tryAttack(scn1, i, now)
            ELSE scn1

\* statics.forEach(obstacle => resolveCollision(ent, obstacle)) from the k-th
\* static on; ents is the list as it stands (earlier entities already moved)
RECURSIVE Collide(_, _, _, _, _)
Collide(ent, i, ents, statics, k) ==
    IF k > Len(statics) THEN ent
    ELSE IF statics[k] = i THEN Collide(ent, i, ents, statics, k + 1)
    ELSE Collide(resolveCollision(ent, ents[statics[k]]), i, ents, statics, k + 1)

\* if (ent.physics === 'dynamic') ent.vy += gravity * dt
ApplyGravity(ent, dt) ==
    IF ent.physics = "dynamic"
    THEN [ent EXCEPT !.vy = @ + Times(options.gravity, dt)]
    ELSE ent

\* ent.pos[0] += ent.vx * dt; ent.pos[1] += ent.vy * dt
Integrate(ent, dt) ==
    [ent EXCEPT !.x = @ + Times(ent.vx, dt), !.y = @ + Times(ent.vy, dt)]

\* the collisions of a dynamic entity with the statics
CollideStatics(ent, i, ents, statics) ==
    IF ent.physics = "dynamic" THEN Collide(ent, i, ents, statics, 1) ELSE ent

\* Age with the projectile kept while its life is exactly 0
AgeLate(ent, dt) ==
    IF ent.kind = "projectile"
    THEN [ent EXCEPT !.life = @ - dt, !.dead = (@ \/ ent.life - dt < 0)]
    ELSE ent

\* a projectile's life runs down by dt; at life <= 0 it is marked dead
Age(ent, dt) ==
    IF ent.kind = "projectile"
    THEN [ent EXCEPT !.life = @ - dt, !.dead = (@ \/ ent.life - dt <= 0)]
    ELSE ent

\* an entity with health <= 0 is marked dead
MarkDead(ent) ==
    IF ent.health <= 0 /\ ~ent.dead THEN [ent EXCEPT !.dead = TRUE] ELSE ent

\* RollBack that puts nothing back
RollBackNever(ent, prevX, prevY) == ent

\* a dead entity that is no projectile is put back where it was
RollBack(ent, prevX, prevY) ==
    IF ent.dead /\ ent.kind # "projectile"
    THEN [ent EXCEPT !.x = prevX, !.y = prevY] ELSE ent

\* gravity, integration, collision, ageing, death and roll-back of entity i
\* (the part of the forEach callback after the control block)
MoveStep(scn, i, statics, dt) ==
    [scn EXCEPT !.entities[i] =
        RollBack(
            MarkDead(Age(CollideStatics(Integrate(ApplyGravity(@, dt), dt),
                                        i, scn.entities, statics), dt)),
            @.x, @.y)]

\* the forEach callback of update for entity i
UpdateEntity(scn, i, statics, keys, dt, now) ==
    LET cleared == [scn EXCEPT !.entities[i].onGround = FALSE]
    IN  MoveStep(ControlStep(cleared, i, keys, now), i, statics, dt)

\* scene.entities.forEach over the entities i..n
RECURSIVE PhysicsPass(_, _, _, _, _, _, _)
PhysicsPass(scn, i, n, statics, keys, dt, now) ==
    IF i > n THEN scn
    ELSE PhysicsPass(UpdateEntity(scn, i, statics, keys, dt, now),
                     i + 1, n, statics, keys, dt, now)

(***************************************************************************)
(* handlePvp(scene).  st = [ents, hits]: the entity list and the damage    *)
(* events so far, one event per subtraction from an actor's health.        *)
(***************************************************************************)
\* a team label that is truthy in JavaScript
TeamSet(t) == t # Null /\ t # ""

\* SameTeam with the comparison of the labels inverted
SameTeamInverted(a, b) == TeamSet(a.team) /\ TeamSet(b.team) /\ a.team # b.team

\* the same-team test of both passes
SameTeam(a, b) == TeamSet(a.team) /\ TeamSet(b.team) /\ a.team = b.team

\* ProjectileHit without proj.dead = true
ProjectileHitKeepsFlying(st, p, a) ==
    LET proj == st.ents[p]
        actor == st.ents[a]
    IN  IF actor.name = proj.owner THEN st
        ELSE IF TeamSet(proj.team) /\ TeamSet(actor.team) /\ proj.team = actor.team
             THEN st
        ELSE IF ~checkOverlap(proj, actor) THEN st
        ELSE LET hurt == [st.ents EXCEPT ![a].health = @ - proj.damage]
                 owner == FindIndex(hurt, LAMBDA e: e.name = proj.owner)
             IN  [ents |-> IF owner # 0
                           THEN [hurt EXCEPT ![owner].score = @ + proj.damage]
                           ELSE hurt,
                  hits |-> Append(st.hits,
                                  [kind |-> "projectile", src |-> proj.id,
                                   target |-> actor.id, amount |-> proj.damage])]

\* the body of the inner loop of the projectile pass, for projectile index p
\* and actor index a
ProjectileHit(st, p, a) ==
    LET proj == st.ents[p]
        actor == st.ents[a]
    IN  IF actor.name = proj.owner THEN st
        ELSE IF SameTeam(proj, actor) THEN st
        ELSE IF ~checkOverlap(proj, actor) THEN st
        ELSE LET hurt == [st.ents EXCEPT ![a].health = @ - proj.damage]
                 owner == FindIndex(hurt, LAMBDA e: e.name = proj.owner)
                 credited == IF owner # 0
                             THEN [hurt EXCEPT ![owner].score = @ + proj.damage]
                             ELSE hurt
             IN  [ents |-> [credited EXCEPT ![p].dead = TRUE],
                  hits |-> Append(st.hits,
                                  [kind |-> "projectile", src |-> proj.id,
                                   target |-> actor.id, amount |-> proj.damage])]

\* ContactHit that hurts only the first actor of the pair
ContactHitOneSided(st, a, b) ==
    IF TeamSet(st.ents[a].team) /\ TeamSet(st.ents[b].team)
       /\ st.ents[a].team = st.ents[b].team THEN st
    ELSE IF ~checkOverlap(st.ents[a], st.ents[b]) THEN st
    ELSE [ents |-> [st.ents EXCEPT ![a].health = @ - 5],
          hits |-> Append(st.hits,
                          [kind |-> "contact", src |-> st.ents[b].id,
                           target |-> st.ents[a].id, amount |-> 5])]

\* the body of the inner loop of the contact pass, for actor indices a < b
ContactHit(st, a, b) ==
    IF SameTeam(st.ents[a], st.ents[b]) THEN st
    ELSE IF ~checkOverlap(st.ents[a], st.ents[b]) THEN st
    ELSE [ents |-> [st.ents EXCEPT ![a].health = @ - 5, ![b].health = @ - 5],
          hits |-> st.hits \o
                   <<[kind |-> "contact", src |-> st.ents[b].id,
                      target |-> st.ents[a].id, amount |-> 5],
                     [kind |-> "contact", src |-> st.ents[a].id,
                      target |-> st.ents[b].id, amount |-> 5]>>]

\* projectiles.forEach(proj => actors.forEach(actor => ...)), from pair k on
RECURSIVE ProjectilePass(_, _, _, _)
ProjectilePass(st, projectiles, actors, k) ==
    IF k > Len(projectiles) * Len(actors) THEN st
    ELSE ProjectilePass(
             ProjectileHit(st, projectiles[((k - 1) \div Len(actors)) + 1],
                               actors[((k - 1) % Len(actors)) + 1]),
             projectiles, actors, k + 1)

\* for (i ...) for (j = i + 1 ...), from the pair numbered k on, the pairs
\* (i, j) of 1..n x 1..n being numbered row by row
RECURSIVE ContactPass(_, _, _)
ContactPass(st, actors, k) ==
    LET n == Len(actors)
        i == ((k - 1) \div n) + 1
        j == ((k - 1) % n) + 1
    IN  IF k > n * n THEN st
        ELSE IF i < j
             THEN ContactPass(ContactHit(st, actors[i], actors[j]), actors, k + 1)
             ELSE ContactPass(st, actors, k + 1)

handlePvp(ents) ==
    LET actors == Indices(ents, LAMBDA e: e.kind # "projectile")
        projectiles == Indices(ents, LAMBDA e: e.kind = "projectile")
        shot == ProjectilePass([ents |-> ents, hits |-> <<>>],
                               projectiles, actors, 1)
    IN  ContactPass(shot, actors, 1)

\* the filter that drops only dead projectiles
removeDeadProjectiles(ents) ==
    SelectSeq(ents, LAMBDA e: ~e.dead \/ e.kind # "projectile")

\* scene.entities.filter((e) => !e.dead)
removeDead(ents) == SelectSeq(ents, LAMBDA e: ~e.dead)

(***************************************************************************)
(* The timeline: the first part of update(dt).                             *)
(***************************************************************************)
\* the test without the fired flag
DueAgain(scn, evt) == scn.time >= evt.time

\* !evt.fired && scene.time >= evt.time
Due(scn, evt) == ~evt.fired /\ scn.time >= evt.time

\* the fired flags of the scene's events, in list order
Flags(scn) ==
    [i \in 1..Len(scn.timelineEvents) |-> scn.timelineEvents[i].fired]

\* evt.fn() for event k of the scene as it is at the call: the event after
\* the call, whether the call threw, and whether it called game.stop()
CallFn(scn, k) ==
    [evt |-> [scn.timelineEvents[k] EXCEPT
                  !.calls = @ + 1,
                  !.seen = IF scn.timelineEvents[k].fn = "snap"
                           THEN scn.entities ELSE @,
                  !.flags = Flags(scn)],
     threw |-> scn.timelineEvents[k].fn = "throw",
     stop |-> scn.timelineEvents[k].fn = "stop"]

\* the handler without its try / catch
EscapesUncaught(threw) == threw

\* try { evt.fn(); } catch (e) { console.error(...) }: whether an exception
\* of the callback leaves the handler
Escapes(threw) == FALSE

\* the scene once the callback of event k has returned or thrown, r being
\* what CallFn gave
Called(scn, k, r) ==
    [scn |-> [scn EXCEPT !.timelineEvents[k] = r.evt],
     threw |-> Escapes(r.threw),
     stop |-> r.stop]

\* evt.fired = true
SetFired(scn, k) == [scn EXCEPT !.timelineEvents[k].fired = TRUE]

\* try { evt.fn() } catch for event k
Invoke(scn, k) == Called(scn, k, CallFn(scn, k))

\* what Invoke gave with the flag of event k set behind the call
ThenSetFired(f, k) == [f EXCEPT !.scn = SetFired(@, k)]

\* the body of the forEach with the call before the flag
FireEventCallFirst(scn, k) == ThenSetFired(Invoke(scn, k), k)

\* the body of the forEach for a due event k: fired is set, then fn is called
FireEvent(scn, k) == Invoke(SetFired(scn, k), k)

\* scene.timelineEvents.forEach from index k on: the scene after it,
\* whether an exception ended it, and whether a callback called game.stop().
\* TimelineAfter goes on after event k, f being what FireEvent gave.
RECURSIVE TimelineFrom(_, _)
RECURSIVE TimelineAfter(_, _)
TimelineFrom(scn, k) ==
    IF k > Len(scn.timelineEvents)
    THEN [scn |-> scn, threw |-> FALSE, stop |-> FALSE]
    ELSE IF ~Due(scn, scn.timelineEvents[k]) THEN TimelineFrom(scn, k + 1)
    ELSE TimelineAfter(FireEvent(scn, k), k)

TimelineAfter(f, k) ==
    IF f.threw THEN f
    ELSE [TimelineFrom(f.scn, k + 1) EXCEPT !.stop = @ \/ f.stop]

\* scene.time = (scene.time || 0) + dt, then the forEach
Timeline(scn, dt) == TimelineFrom([scn EXCEPT !.time = @ + dt], 1)

(***************************************************************************)
(* Array.prototype.sort with a comparator (a, b) => Key(a) - Key(b): the   *)
(* sort is stable, x goes before the first element whose key is larger.    *)
(***************************************************************************)
RECURSIVE InsertKeyed(_, _)
InsertKeyed(sorted, x) ==
    IF sorted = <<>> THEN <<x>>
    ELSE IF x.key < Head(sorted).key THEN <<x>> \o sorted
    ELSE <<Head(sorted)>> \o InsertKeyed(Tail(sorted), x)

RECURSIVE SortKeyed(_)
SortKeyed(pairs) ==
    IF pairs = <<>> THEN <<>>
    ELSE InsertKeyed(SortKeyed(SubSeq(pairs, 1, Len(pairs) - 1)),
                     pairs[Len(pairs)])

\* the elements of the sorted pairs
Values(sorted) == [k \in 1..Len(sorted) |-> sorted[k].val]

Sort(seq, Key(_)) ==
    Values(SortKeyed([k \in 1..Len(seq) |->
                         [key |-> Key(seq[k]), val |-> seq[k]]]))

(***************************************************************************)
(* createScoreboard: the scoreboard's update(players).                     *)
(***************************************************************************)
\* the row of player p: name, team || 'solo', the health clamped at 0, score
Row(p) ==
    [name |-> p.name,
     team |-> IF p.team \in {Null, ""} THEN "solo" ELSE p.team,
     health |-> Max(0, p.health),
     score |-> p.score]

\* the sort with the comparator's operands exchanged
ByScoreAscending(players) == Sort(players, LAMBDA p: p.score)

\* players.sort((a, b) => (b.score || 0) - (a.score || 0))
ByScore(players) == Sort(players, LAMBDA p: 0 - p.score)

\* the forEach of scoreboard.update: one row per player
RowsOf(sorted) == [k \in 1..Len(sorted) |-> Row(sorted[k])]

\* scoreboard.update(players): the rows the list shows after it
ScoreboardUpdate(players) == RowsOf(ByScore(players))

\* scene.entities.filter((e) => e.trackScore)
TrackedPlayers(ents) == SelectSeq(ents, LAMBDA e: e.trackScore)

\* the test with one flag sufficing
CombatEnabledEither(scn) == scn.multiplayer \/ options.multiplayer

\* whether update runs the combat step
CombatEnabled(scn) == scn.multiplayer /\ options.multiplayer

\* the combat step of update on the scene the entity pass left
Fight(moved) ==
    IF CombatEnabled(moved) THEN handlePvp(moved.entities)
    ELSE [ents |-> moved.entities, hits |-> <<>>]

\* the dead-entity filter of update, fought being the result of the combat
\* step on the scene moved
Reap(moved, fought) ==
    [scn |-> [moved EXCEPT !.entities = removeDead(fought.ents)],
     combatIn |-> moved.entities,
     hits |-> fought.hits]

\* update(dt) behind the entity pass
CombatAndReaping(moved) == Reap(moved, Fight(moved))

\* update(dt) from the entity pass on, the timeline being done
Simulate(scn, keys, dt, now) ==
    CombatAndReaping(
        PhysicsPass(scn, 1, Len(scn.entities),
                    Indices(scn.entities, LAMBDA e: e.physics = "static"),
                    keys, dt, now))

\* what update hands back: r is the result of Simulate, and threw and stop
\* tell whether the timeline threw and whether it called game.stop()
Outcome(r, threw, stop) ==
    [scn |-> r.scn, combatIn |-> r.combatIn, hits |-> r.hits,
     boards |-> IF scoreboard.attached
                THEN <<TrackedPlayers(r.scn.entities)>> ELSE <<>>,
     threw |-> threw, stop |-> stop]

\* the timeline on the scene Simulate left
TimelineLast(r) == TimelineFrom(r.scn, 1)

\* the outcome with the scene and the flags of a timeline that ran last
OutcomeLast(r, timeline) ==
    Outcome([r EXCEPT !.scn = timeline.scn], timeline.threw, timeline.stop)

\* the part of update behind Simulate when the timeline runs last
ThenTimeline(r) == OutcomeLast(r, TimelineLast(r))

\* update(dt) with the timeline moved behind the dead-entity filter
updateTimelineLast(scn, keys, dt, now) ==
    ThenTimeline(Simulate([scn EXCEPT !.time = @ + dt], keys, dt, now))

\* update(dt) behind the timeline; an exception that left the timeline ends
\* update
AfterTimeline(timeline, keys, dt, now) ==
    IF timeline.threw
    THEN [scn |-> timeline.scn, combatIn |-> <<>>, hits |-> <<>>,
          boards |-> <<>>, threw |-> TRUE, stop |-> timeline.stop]
    ELSE Outcome(Simulate(timeline.scn, keys, dt, now), FALSE, timeline.stop)

\* update(dt) on the scene scn; keys is keyState and now performance.now().
\* Returns the scene after it, the list that entered combat, the damage
\* events of the combat, the argument of each call of scoreboard.update,
\* whether an exception ended it, and whether a callback called game.stop().
update(scn, keys, dt, now) ==
    AfterTimeline(Timeline(scn, dt), keys, dt, now)

\* the forEach of render: one rectangle per entity
Rectangles(ents) ==
    [k \in 1..Len(ents) |->
        [id |-> ents[k].id, x |-> ents[k].x, y |-> ents[k].y,
         z |-> ents[k].z, w |-> ents[k].w, h |-> ents[k].h]]

\* render(): the rectangles painted, sorted by z
render(scn) == Rectangles(Sort(scn.entities, LAMBDA e: e.z))

(***************************************************************************)
(* Scenes and options the explorations start from: what a page builds with *)
(* HoloStage.create(canvas, options), game.scene / scene.addEntity and      *)
(* game.useScene before game.start().                                      *)
(***************************************************************************)
\* scene.addEntity for each config of configs, in order
RECURSIVE AddAll(_, _)
AddAll(scn, configs) ==
    IF configs = <<>> THEN scn
    ELSE AddAll(addEntity(scn, Head(configs)), Tail(configs))

\* the options of create() with the given gravity
Options(gravity) ==
    [gravity |-> gravity, multiplayer |-> TRUE,
     weaponDefinitions |-> DefaultWeaponDefinitions,
     defaultWeapon |-> [f \in {} |-> 0]]

\* an actor that attacks with the key f
Attacker(team, weapon) ==
    [name |-> "A", team |-> team, controls |-> [attack |-> "f"],
     weapon |-> weapon, trackScore |-> TRUE]

\* an actor without controls
Bystander(name, x, team, health) ==
    [name |-> name, x |-> x, team |-> team, health |-> health,
     maxHealth |-> health]

\* an inline weapon without a cooldown field
Laser == [name |-> "Laser", damage |-> 14, projectileSpeed |-> 15000]

CombatScenes ==
    { AddAll(createEmptyScene("hit"),
             <<Attacker(Null, EntityDefaults.weapon),
               Bystander("B", 2000, Null, 50)>>),
      AddAll(createEmptyScene("friends"),
             <<Attacker("red", EntityDefaults.weapon),
               Bystander("B", 500, "red", 100),
               Bystander("C", 2000, "red", 100)>>),
      AddAll(createEmptyScene("foes"),
             <<Attacker("red", WeaponName("bow")),
               Bystander("B", 500, "blue", 100)>>),
      AddAll(createEmptyScene("crowd"),
             <<Attacker("red", Laser),
               Bystander("B", 2000, "blue", 100),
               Bystander("C", 2100, "blue", 100)>>),
      AddAll(createEmptyScene("mixed"),
             <<Attacker("red", WeaponName("pistol")),
               Bystander("B", 2000, "red", 50),
               Bystander("C", 2500, Null, 50)>>),
      AddAll(createEmptyScene("duel"),
             <<Bystander("A", 0, "red", 100),
               Bystander("B", 500, "blue", 100)>>) }

\* a dynamic body above the ground
Hero(y, vy, controls) ==
    [name |-> "hero", y |-> y, vy |-> vy, physics |-> "dynamic",
     controls |-> controls]

Ground ==
    [name |-> "ground", y |-> 10000, w |-> 20000, h |-> 1000,
     physics |-> "static"]

PhysicsScenes ==
    { AddAll(createEmptyScene("landing"), <<Hero(9000, 5000, NullControls), Ground>>),
      AddAll(createEmptyScene("stepping"), <<Hero(9000, 500, NullControls), Ground>>),
      AddAll(createEmptyScene("resting"),
             <<Hero(9000, 0, [right |-> "d", jump |-> " "]), Ground>>),
      AddAll(createEmptyScene("lift"),
             <<[name |-> "lift", physics |-> "static", vx |-> 1000],
               [name |-> "door", x |-> 5000, physics |-> "static",
                controls |-> [right |-> "d"]]>>) }

Gravities == {0, 10000}

\* scene.at(t, fn) for each <<t, fn>> of evts, in order
RECURSIVE AtAll(_, _)
AtAll(scn, evts) ==
    IF evts = <<>> THEN scn
    ELSE AtAll(at(scn, Head(evts)[1], Head(evts)[2]), Tail(evts))

\* an actor the key d moves to the right
Walker == [name |-> "walker", controls |-> [right |-> "d"]]

\* an entity that drifts to the right
Drone == [name |-> "drone", y |-> 5000, vx |-> 1000]

\* scenes with timeline events: at times a step can hit exactly and times a
\* step can only pass, a throwing callback before, between and after others
TimelineScenes ==
    { AtAll(AddAll(createEmptyScene("show"), <<Walker, Drone>>),
            << <<250, "snap">>, <<1000, "throw">>, <<1000, "count">>,
               <<300, "snap">> >>),
      AtAll(AddAll(createEmptyScene("intro"), <<Walker, Drone>>),
            << <<0, "count">>, <<2000, "snap">>, <<100, "throw">> >>),
      AtAll(AddAll(createEmptyScene("brawl"),
                   <<Attacker(Null, EntityDefaults.weapon),
                     Bystander("B", 2000, Null, 10)>>),
            << <<1100, "throw">>, <<1100, "snap">>, <<200, "snap">> >>) }

(***************************************************************************)
(* game.scene(name, builderFn) and game.useScene(name).                    *)
(***************************************************************************)
\* the properties of the object createEmptyScene returns
SceneProperties ==
    {"name", "background", "entities", "timelineEvents", "addEntity", "at"}

\* game.scenes is a plain object ({}): a name it has no own property for is
\* looked up in Object.prototype, whose properties are functions or objects
ObjectPrototype ==
    {"constructor", "hasOwnProperty", "isPrototypeOf", "propertyIsEnumerable",
     "toLocaleString", "toString", "valueOf", "__proto__"}

\* the entity of the README's example
Player ==
    [name |-> "player", x |-> 1000, y |-> 1000, z |-> 0, w |-> 1000,
     h |-> 1000, color |-> "#4af", controls |-> CONTROL_SCHEMES.arrows,
     physics |-> "dynamic"]

\* the builder functions: which property of their argument they take, which
\* method of it they call, and with which config.
\*   "readme":  ({ add }) => { add.entity(Player) }
\*   "direct":  (scene) => { scene.addEntity(Walker) }
\*   "none":    no function
Builders == {"none", "readme", "direct"}

BuilderProperty(b) == IF b = "readme" THEN "add" ELSE "addEntity"

BuilderConfig(b) == IF b = "readme" THEN Player ELSE Walker

\* builderFn(scene): the scene after the call and whether the call threw.
\* A property the scene object does not have is undefined, and calling a
\* method of undefined throws a TypeError.
CallBuilder(scn, b) ==
    IF b = "none" THEN [scn |-> scn, threw |-> FALSE]
    ELSE IF BuilderProperty(b) \notin SceneProperties
    THEN [scn |-> scn, threw |-> TRUE]
    ELSE [scn |-> addEntity(scn, BuilderConfig(b)), threw |-> FALSE]

\* names scene() is called with, and names useScene() is called with
RegisterNames == {"test"}

UseNames == {"test", "nowhere", "toString"}

\* last before any update
NoUpdate ==
    [dt |-> 0, now |-> 0, keys |-> {}, before |-> <<>>, combatIn |-> <<>>,
     hits |-> <<>>, events |-> <<>>, time |-> 0, boards |-> <<>>,
     attached |-> FALSE]

\* lastFrame before any frame
NoFrame == [calls |-> 0, steps |-> 0, renders |-> 0]

\* lastCall before any call
NoCall ==
    [op |-> Null, name |-> Null, builder |-> Null, error |-> Null,
     registered |-> {}, current |-> Null, calls |-> 0]

\* game.scoreboard === null
NoScoreboard == [attached |-> FALSE, rows |-> <<>>]

\* the game after create(), one scene of sceneSet registered and used, and
\* start()
InitWith(sceneSet, gravities) ==
    /\ keyState = {}
    /\ clock = 0
    /\ running = TRUE
    /\ lastTime = 0
    /\ options \in {Options(g) : g \in gravities}
    /\ \E scn \in sceneSet :
          /\ scenes = (scn.name :> scn)
          /\ currentScene = scn.name
    /\ pending = 1
    /\ scoreboard = NoScoreboard
    /\ canvas = <<>>
    /\ lastCall = NoCall
    /\ frames = 0
    /\ last = NoUpdate
    /\ lastFrame = NoFrame

InitCombat == InitWith(CombatScenes, {0})

InitPhysics == InitWith(PhysicsScenes, Gravities)

InitTimeline == InitWith(TimelineScenes, {0})

\* the combat scenes with the scene flag (data-hs-multiplayer) set or cleared
FlaggedScenes ==
    {[scn EXCEPT !.multiplayer = m] : scn \in CombatScenes, m \in BOOLEAN}

\* the game with the option multiplayer set or cleared
InitMultiplayer ==
    /\ keyState = {}
    /\ clock = 0
    /\ running = TRUE
    /\ lastTime = 0
    /\ options \in {[Options(0) EXCEPT !.multiplayer = m] : m \in BOOLEAN}
    /\ \E scn \in FlaggedScenes :
          /\ scenes = (scn.name :> scn)
          /\ currentScene = scn.name
    /\ pending = 1
    /\ scoreboard = NoScoreboard
    /\ canvas = <<>>
    /\ lastCall = NoCall
    /\ frames = 0
    /\ last = NoUpdate
    /\ lastFrame = NoFrame

\* a scene whose timeline stops the game
LoopScenes ==
    { AtAll(AddAll(createEmptyScene("show"), <<Walker, Drone>>),
            << <<1100, "stop">>, <<1100, "count">> >>) }

\* a box of the given position and size
Box(name, x, y, w, h, controls) ==
    [name |-> name, x |-> x, y |-> y, w |-> w, h |-> h, controls |-> controls]

\* positions and sizes the boxes are drawn from: apart, touching at an edge
\* or a corner, overlapping, one inside the other, empty
Abscissas == {0, 1000, 2000}

Ordinates == {0, 1000}

Sizes == {0, 1000}

\* two actors without teams, the first moved by the key d, the second a
\* square
OverlapScenes ==
    { AddAll(createEmptyScene("boxes"),
             <<Box("A", x, y, w, h, [right |-> "d"]),
               Box("B", 1000, 1000, b, b, NullControls)>>) :
        x \in Abscissas, y \in Ordinates, w \in Sizes, h \in Sizes,
        b \in Sizes }

InitOverlap == InitWith(OverlapScenes, {0})

\* a player the scoreboard lists
Tracked(name, y, team, health, score) ==
    [name |-> name, y |-> y, team |-> team, health |-> health,
     maxHealth |-> health, score |-> score, trackScore |-> TRUE]

\* a scene with players of equal and of different scores, one of them
\* without health, one within reach of the attacker's projectiles, which
\* are not tracked
ScoreboardScenes ==
    { AddAll(createEmptyScene("league"),
             <<Attacker("red", EntityDefaults.weapon),
               Tracked("Z", 8000, Null, 0, 50),
               [x |-> 2000] @@ Tracked("B", 0, "blue", 10, 10),
               Tracked("C", 5000, "blue", 100, 10)>>) }

InitScoreboard == InitWith(ScoreboardScenes, {0})

\* scenes in which entities die during a step.  "lastgasp": the attacker's
\* projectiles hit C or pass it and reach B in the step their life runs out.  "corpse": B drifts
\* inside A and loses its last health to the contact.  "fall": B sinks past
\* A onto the ground.  "laststand": the attacker loses its last health to the
\* contact with B.  "crate": A stands half inside a static crate.
CasualtyScenes ==
    { AddAll(createEmptyScene("lastgasp"),
             <<Attacker(Null, EntityDefaults.weapon),
               Bystander("C", 2000, Null, 50),
               Bystander("B", 36500, Null, 50)>>),
      AddAll(createEmptyScene("corpse"),
             <<Bystander("A", 0, "red", 100),
               [vx |-> 100] @@ Bystander("B", 500, "blue", 10)>>),
      AddAll(createEmptyScene("fall"),
             <<[y |-> 8500] @@ Bystander("A", 0, "red", 100),
               [y |-> 8000, vy |-> 500, physics |-> "dynamic"]
                   @@ Bystander("B", 500, "blue", 10),
               [team |-> "blue"] @@ Ground>>),
      AddAll(createEmptyScene("laststand"),
             <<[health |-> 5] @@ Attacker("red", EntityDefaults.weapon),
               Bystander("B", 500, "blue", 100)>>),
      AddAll(createEmptyScene("crate"),
             <<Bystander("A", 0, Null, 100),
               [name |-> "crate", x |-> 500, physics |-> "static",
                health |-> 10]>>) }

InitCasualties == InitWith(CasualtyScenes, Gravities)

\* a dynamic box D of the given position, size and velocity next to a static
\* square S at (1, 1); both on one team, so that contact costs no health
Mover(x, y, w, h, vx, vy) ==
    [name |-> "D", x |-> x, y |-> y, w |-> w, h |-> h, vx |-> vx, vy |-> vy,
     physics |-> "dynamic", team |-> "red"]

Obstacle ==
    [name |-> "S", x |-> 1000, y |-> 1000, w |-> 1000, h |-> 1000,
     physics |-> "static", team |-> "red"]

\* positions, sizes and velocities of D: apart from S, cutting an edge or a
\* corner of S, inside S, spanning S on one axis or on both, empty
Lefts == {0, 500, 1500}

Tops == {0, 500, 1500}

Widths == {0, 1000, 3000}

Heights == {1000, 3000}

Speeds == {-500, 500}

\* an entity outside the reach of D and S that listens to the jump key; it
\* has no physics, so it is never on the ground and never jumps
Onlooker ==
    [name |-> "P", x |-> 8000, y |-> 8000, physics |-> "none",
     controls |-> [jump |-> " "]]

CollisionScenes ==
    { AddAll(createEmptyScene("yard"),
             <<Mover(x, y, w, h, vx, vy), Obstacle, Onlooker>>) :
        x \in Lefts, y \in Tops, w \in Widths, h \in Heights,
        vx \in Speeds, vy \in Speeds }

InitCollision == InitWith(CollisionScenes, {0})

(***************************************************************************)
(* Attribute texts and game.loadSceneFromDOM.  The text of an attribute is *)
(* a sequence of lexemes: words, and the separator characters the parsers  *)
(* split on; the white space around a word is what trim() removes.         *)
(***************************************************************************)
\* the index of the first lexeme of text that is in seps, 0 without one
FirstOf(text, seps) == FindIndex(text, LAMBDA l: l \in seps)

\* String.prototype.split on a character class
RECURSIVE Split(_, _)
Split(text, seps) ==
    IF FirstOf(text, seps) = 0 THEN <<text>>
    ELSE <<SubSeq(text, 1, FirstOf(text, seps) - 1)>>
         \o Split(SubSeq(text, FirstOf(text, seps) + 1, Len(text)), seps)

\* the string a text is
RECURSIVE Join(_)
Join(text) == IF text = <<>> THEN "" ELSE Head(text) \o Join(Tail(text))

\* the reduce callback of parseProps: const [k, v] = part.split(/[:=]/);
\* if (k) acc[k] = v || true.  The value true is kept as the word "true".
PutProp(acc, pieces) ==
    IF Join(pieces[1]) = "" THEN acc
    ELSE (Join(pieces[1]) :>
             (IF Len(pieces) >= 2 /\ pieces[2] # <<>> THEN Join(pieces[2])
              ELSE "true")) @@ acc

RECURSIVE ReduceProps(_, _)
ReduceProps(acc, parts) ==
    IF parts = <<>> THEN acc
    ELSE ReduceProps(IF Head(parts) = <<>> THEN acc
                     ELSE PutProp(acc, Split(Head(parts), {":", "="})),
                     Tail(parts))

\* parseProps(str) of an attribute text
parsePropsText(text) == ReduceProps(<<>>, Split(text, {",", ";"}))

\* the reduce callback of parseWeaponDefinitions:
\* const [name, props] = entry.split(/[:=]/); acc[name] = parseProps(props)
PutWeapon(acc, pieces) ==
    IF Join(pieces[1]) = "" THEN acc
    ELSE (Join(pieces[1]) :>
             parsePropsText(IF Len(pieces) >= 2 THEN pieces[2] ELSE <<>>))
         @@ acc

RECURSIVE ReduceWeapons(_, _)
ReduceWeapons(acc, entries) ==
    IF entries = <<>> THEN acc
    ELSE ReduceWeapons(IF Head(entries) = <<>> THEN acc
                       ELSE PutWeapon(acc, Split(Head(entries), {":", "="})),
                       Tail(entries))

parseWeaponDefinitions(text) == ReduceWeapons(<<>>, Split(text, {"|"}))

\* parseFloat of the words the attributes hold, in thousandths; a word that
\* is not in the table reads as NaN
Thousandths ==
    ("9" :> 9000) @@ ("0.6" :> 600) @@ ("14" :> 14000) @@ ("0.25" :> 250)
    @@ ("20" :> 20000) @@ ("15" :> 15000) @@ ("0.1" :> 100)

\* the fields tryAttack reads with parseFloat, and how many thousandths the
\* model's unit of each is
NumberFields == [damage |-> 1000, cooldown |-> 1, projectileSpeed |-> 1]

\* a weapon object parsed from text as tryAttack reads it: a number field
\* holds the number parseFloat reads, and is left out when that is NaN, which
\* tryAttack treats as it treats a missing field; size is left out because a
\* value of parseProps holds no comma, so that tryAttack never gets two
\* numbers from it; every other field keeps its word
Numbers(obj) ==
    [f \in {g \in DOMAIN obj \ {"size"} :
                g \in DOMAIN NumberFields => obj[g] \in DOMAIN Thousandths} |->
        IF f \in DOMAIN NumberFields
        THEN Thousandths[obj[f]] \div NumberFields[f]
        ELSE obj[f]]

\* scene.weaponDefinitions = parseWeaponDefinitions(weaponDefAttr)
SceneDefinitions(text) ==
    [n \in DOMAIN parseWeaponDefinitions(text) |->
        Numbers(parseWeaponDefinitions(text)[n])]

\* the part of resolveWeaponSpec behind parseProps
ResolvePreset(parsed, definitions) ==
    IF "preset" \in DOMAIN parsed /\ parsed.preset \in DOMAIN definitions
    THEN parsed @@ definitions[parsed.preset] @@ [name |-> parsed.preset]
    ELSE parsed

\* resolveWeaponSpec(spec, definitions) for the text of data-hs-weapon
resolveWeaponText(text, definitions) ==
    IF Join(text) \in DOMAIN definitions
    THEN definitions[Join(text)] @@ [name |-> Join(text)]
    ELSE ResolvePreset(Numbers(parsePropsText(text)), definitions)

\* the actions parseControls copies from the parsed text
ControlActions ==
    {"left", "right", "up", "down", "jump", "attack", "sprint"}

ControlMap(parsed) ==
    IF DOMAIN parsed \cap ControlActions = {} THEN NullControls
    ELSE [a \in DOMAIN parsed \cap ControlActions |-> parsed[a]]

\* parseControls(str) for the text of data-hs-controls
parseControls(text) ==
    IF text = <<>> THEN NullControls
    ELSE IF Join(text) \in DOMAIN CONTROL_SCHEMES
    THEN CONTROL_SCHEMES[Join(text)]
    ELSE ControlMap(parsePropsText(text))

\* the config loadSceneFromDOM hands to addEntity for the element el, with
\* the weapon definitions of the game and the scene; weaponAttr keeps the
\* text of data-hs-weapon for the properties
NodeConfig(el, definitions) ==
    [name |-> el.entity, y |-> el.y,
     controls |-> parseControls(el.controls),
     weapon |-> IF el.weapon = <<>> THEN NoWeapon
                ELSE resolveWeaponText(el.weapon, definitions),
     weaponAttr |-> el.weapon]

\* game.loadSceneFromDOM(root) with the options opts: root has the id, the
\* text of data-hs-weapons and the elements marked data-hs-entity; weaponsAttr
\* keeps the text of data-hs-weapons for the properties
loadSceneFromDOM(root, opts) ==
    AddAll([weaponDefinitions |-> SceneDefinitions(root.weapons),
            weaponsAttr |-> root.weapons]
               @@ [createEmptyScene(root.id) EXCEPT
                      !.multiplayer = opts.multiplayer],
           [k \in 1..Len(root.nodes) |->
               NodeConfig(root.nodes[k],
                          SceneDefinitions(root.weapons)
                              @@ opts.weaponDefinitions)])

\* an element with data-hs-entity, data-hs-pos, data-hs-controls = attack:key
\* and data-hs-weapon
Shooter(name, y, key, weapon) ==
    [entity |-> name, y |-> y, controls |-> <<"attack", ":", key>>,
     weapon |-> weapon]

\* the README's scene-wide presets:
\* data-hs-weapons="bow:damage=9,cooldown=0.6 | pistol:damage=14,cooldown=0.25"
ReadmeWeapons ==
    <<"bow", ":", "damage", "=", "9", ",", "cooldown", "=", "0.6", "|",
      "pistol", ":", "damage", "=", "14", ",", "cooldown", "=", "0.25">>

\* the README's inline weapon:
\* data-hs-weapon="name:Laser;damage:14;projectileSpeed:15;color:#ff89c9"
ReadmeLaser ==
    <<"name", ":", "Laser", ";", "damage", ":", "14", ";",
      "projectileSpeed", ":", "15", ";", "color", ":", "#ff89c9">>

\* DOM scenes: "range" defines presets on the scene and names one; "desk"
\* names one with an inline override; "lab" has an inline weapon; "loft" a
\* preset of the game with an inline override; "shop" a preset of the game
\* by its name
DomScenes ==
    { [id |-> "range", weapons |-> ReadmeWeapons,
       nodes |-> <<Shooter("archer", 0, "f", <<"bow">>)>>],
      [id |-> "desk", weapons |-> ReadmeWeapons,
       nodes |-> <<Shooter("gunner", 0, "f",
                           <<"preset", ":", "pistol", ";",
                             "cooldown", ":", "0.1">>)>>],
      [id |-> "lab", weapons |-> <<>>,
       nodes |-> <<Shooter("laser", 0, "f", ReadmeLaser)>>],
      [id |-> "loft", weapons |-> <<>>,
       nodes |-> <<Shooter("sniper", 0, "f",
                           <<"preset", ":", "bow", ";", "damage", ":", "20">>)>>],
      [id |-> "shop", weapons |-> <<>>,
       nodes |-> <<Shooter("plain", 0, "f", <<"pistol">>)>>] }

\* options.defaultWeapon left out, or given
DefaultWeapons == {[f \in {} |-> 0], [damage |-> 3, projectileSpeed |-> 5000]}

\* the game after create(canvas, options), loadSceneFromDOM(root) and start()
InitWeapons ==
    /\ keyState = {}
    /\ clock = 0
    /\ running = TRUE
    /\ lastTime = 0
    /\ options \in {[Options(0) EXCEPT !.defaultWeapon = d] :
                       d \in DefaultWeapons}
    /\ \E root \in DomScenes :
          /\ scenes = (root.id :> loadSceneFromDOM(root, options))
          /\ currentScene = root.id
    /\ pending = 1
    /\ scoreboard = NoScoreboard
    /\ canvas = <<>>
    /\ lastCall = NoCall
    /\ frames = 0
    /\ last = NoUpdate
    /\ lastFrame = NoFrame

\* a controlled entity that is moving when the game starts
Pilot(controls, speed, moveMode, physics) ==
    [name |-> "pilot", controls |-> controls, speed |-> speed,
     moveMode |-> moveMode, physics |-> physics, vx |-> 1000, vy |-> -500]

\* the speeds entities are configured with
ConfiguredSpeeds == {0, 2000}

\* "steer": an entity with the keys left and right, of each speed; "climb":
\* an entity with the keys up and down, of each move mode and physics;
\* "glide": a top-down entity of speed 0 with the keys up and down;
\* "hop": a platformer body with the keys down and jump
ControlScenes ==
    { AddAll(createEmptyScene("steer"),
             <<Pilot([left |-> "a", right |-> "d"], v, "platformer", "none")>>) :
        v \in ConfiguredSpeeds }
    \cup
    { AddAll(createEmptyScene("climb"),
             <<Pilot([up |-> "w", down |-> "s"], 2000, m, ph)>>) :
        m \in {"platformer", "topdown"},
        ph \in {"none", "dynamic", "static"} }
    \cup
    { AddAll(createEmptyScene("glide"),
             <<Pilot([up |-> "w", down |-> "s"], 0, "topdown", "none")>>) }
    \cup
    { AddAll(createEmptyScene("hop"),
             <<Pilot([down |-> "s", jump |-> " "], 2000, "platformer",
                     "dynamic")>>) }

InitControls == InitWith(ControlScenes, Gravities)

\* an attacker of width w that the key a turns and moves to the left
Gunner(w, weapon) ==
    [name |-> "A", w |-> w, controls |-> [left |-> "a", attack |-> "f"],
     weapon |-> weapon]

\* an inline weapon with a small projectile
Dart == [name |-> "Dart", damage |-> 2, cooldown |-> 1000, size |-> <<100, 100>>]

\* attackers and projectiles of several sizes
AimScenes ==
    { AddAll(createEmptyScene("wide"), <<Gunner(2000, EntityDefaults.weapon)>>),
      AddAll(createEmptyScene("thin"), <<Gunner(100, WeaponName("pistol"))>>),
      AddAll(createEmptyScene("darts"), <<Gunner(1000, Dart)>>) }

InitAim == InitWith(AimScenes, {0})

\* depths of the entities of a scene
Depths == {-1000, 0, 1000}

\* scenes whose store order is not their depth order: an attacker whose
\* projectiles have its depth, a target one hit kills, and a drifting drone
RenderScenes ==
    { AddAll(createEmptyScene("stage"),
             <<[z |-> za] @@ Attacker(Null, EntityDefaults.weapon),
               [z |-> zb] @@ Bystander("B", 2000, Null, 10),
               [z |-> zc] @@ Drone>>) :
        za \in Depths, zb \in Depths, zc \in Depths }

InitRender == InitWith(RenderScenes, {0})

\* the names useScene is called with while two scenes are registered
BackstageNames == {"show", "intro"}

\* the game after create(), two scenes with timeline events registered, one
\* of them used, and start()
InitBackstage ==
    /\ keyState = {}
    /\ clock = 0
    /\ running = TRUE
    /\ lastTime = 0
    /\ options = Options(0)
    /\ scenes = [n \in BackstageNames |->
                    CHOOSE scn \in TimelineScenes : scn.name = n]
    /\ currentScene \in BackstageNames
    /\ pending = 1
    /\ scoreboard = NoScoreboard
    /\ canvas = <<>>
    /\ lastCall = NoCall
    /\ frames = 0
    /\ last = NoUpdate
    /\ lastFrame = NoFrame

\* the game after create() and start(), no scene registered yet
InitScenes ==
    /\ keyState = {}
    /\ clock = 0
    /\ running = TRUE
    /\ lastTime = 0
    /\ options = Options(0)
    /\ scenes = <<>>
    /\ currentScene = Null
    /\ pending = 1
    /\ scoreboard = NoScoreboard
    /\ canvas = <<>>
    /\ lastCall = NoCall
    /\ frames = 0
    /\ last = NoUpdate
    /\ lastFrame = NoFrame

\* the game after create(), scene() and useScene(), before start()
InitLoop ==
    /\ keyState = {}
    /\ clock = 0
    /\ running = FALSE
    /\ lastTime = 0
    /\ options = Options(0)
    /\ \E scn \in LoopScenes :
          /\ scenes = (scn.name :> scn)
          /\ currentScene = scn.name
    /\ pending = 0
    /\ scoreboard = NoScoreboard
    /\ canvas = <<>>
    /\ lastCall = NoCall
    /\ frames = 0
    /\ last = NoUpdate
    /\ lastFrame = NoFrame

(***************************************************************************)
(* Actions.                                                                *)
(***************************************************************************)
\* the keys some entity of the active scene has in its control scheme: the
\* only entries of keyState that update reads
ListenedKeys ==
    IF currentScene \notin DOMAIN scenes THEN {}
    ELSE LET ents == scenes[currentScene].entities
         IN  UNION { IF ents[k].controls = NullControls THEN {}
                     ELSE {ents[k].controls[a] : a \in DOMAIN ents[k].controls} :
                     k \in 1..Len(ents) }

\* the keydown listener
KeyDown(k) ==
    /\ k \notin keyState
    /\ keyState' = keyState \cup {k}
    /\ UNCHANGED <<clock, running, lastTime, options, scenes, currentScene,
                   pending, scoreboard, canvas, lastCall, frames, last, lastFrame>>

\* the keyup listener
KeyUp(k) ==
    /\ k \in keyState
    /\ keyState' = keyState \ {k}
    /\ UNCHANGED <<clock, running, lastTime, options, scenes, currentScene,
                   pending, scoreboard, canvas, lastCall, frames, last, lastFrame>>

\* what the loop callbacks of one animation frame read and write; raf counts
\* the callbacks they hand to requestAnimationFrame
GameState ==
    [running |-> running, lastTime |-> lastTime, scenes |-> scenes, rows |-> scoreboard.rows,
     canvas |-> canvas, last |-> last, raf |-> 0, steps |-> 0, renders |-> 0,
     threw |-> FALSE]

\* the game after update(dt) on the scene scn gave r
AfterUpdate(g, now, scn, r) ==
    [g EXCEPT !.running = @ /\ ~r.stop,
              !.lastTime = now,
              !.scenes[currentScene] = r.scn,
              !.rows = IF r.boards = <<>> THEN @
                       ELSE ScoreboardUpdate(r.boards[1]),
              !.last = [dt |-> now - g.lastTime, now |-> now,
                        keys |-> keyState, before |-> scn.entities,
                        combatIn |-> r.combatIn, hits |-> r.hits,
                        events |-> scn.timelineEvents, time |-> scn.time,
                        boards |-> r.boards,
                        attached |-> scoreboard.attached],
              !.steps = @ + 1,
              !.threw = r.threw]

\* the scenes of g with the time advance and the timeline check of update on
\* every scene but the active one
OthersAdvanced(g, dt) ==
    [n \in DOMAIN g.scenes |->
        IF n = currentScene THEN g.scenes[n]
        ELSE Timeline(g.scenes[n], dt).scn]

\* what Step gave with the others advanced by the same dt
WithOthers(g, stepped) ==
    [stepped EXCEPT !.scenes = OthersAdvanced(stepped, stepped.last.dt)]

\* update(dt) running the clock and the timeline of every registered scene
StepEveryScene(g, now) ==
    WithOthers(g, AfterUpdate(g, now, g.scenes[currentScene],
               update(g.scenes[currentScene], keyState, now - g.lastTime, now)))

\* loop(now) up to the end of update(dt), the game running and a scene used
Step(g, now) ==
    AfterUpdate(g, now, g.scenes[currentScene],
             update(g.scenes[currentScene], keyState, now - g.lastTime, now))

\* render() with the sort on scene.entities itself, without slice()
PaintSortedInPlace(g) ==
    [g EXCEPT !.scenes[currentScene].entities = Sort(@, LAMBDA e: e.z),
              !.canvas = render(g.scenes[currentScene]),
              !.renders = @ + 1,
              !.raf = @ + 1]

\* loop(now) from render() on
Paint(g) ==
    [g EXCEPT !.canvas = render(g.scenes[currentScene]),
              !.renders = @ + 1,
              !.raf = @ + 1]

\* loop(now) without the test
RunsAlways(g) == TRUE

\* the test game.running of loop(now)
Runs(g) == g.running

\* loop(now) behind update(dt): an exception of update leaves loop at once
AfterStep(stepped) ==
    IF stepped.threw THEN [stepped EXCEPT !.threw = FALSE]
    ELSE Paint(stepped)

\* loop(now).  After an exception the browser goes on with the next
\* callback.  Without a scene update and render return at once.  When
\* game.currentScene is a property inherited from Object.prototype, update
\* throws at scene.timelineEvents.forEach.
loop(g, now) ==
    IF ~Runs(g) THEN g
    ELSE IF currentScene = Null
    THEN [g EXCEPT !.lastTime = now, !.steps = @ + 1, !.renders = @ + 1,
                   !.raf = @ + 1]
    ELSE IF currentScene \notin DOMAIN g.scenes
    THEN [g EXCEPT !.lastTime = now, !.steps = @ + 1]
    ELSE AfterStep(Step(g, now))

\* the n callbacks of one animation frame, called one after the other with
\* the same timestamp
RECURSIVE Loops(_, _, _)
Loops(g, n, now) == IF n = 0 THEN g ELSE Loops(loop(g, now), n - 1, now)

\* the game state g the callbacks of a frame left, written back
Deliver(g) ==
    /\ running' = g.running
    /\ lastTime' = g.lastTime
    /\ scenes' = g.scenes
    /\ scoreboard' = [scoreboard EXCEPT !.rows = g.rows]
    /\ canvas' = g.canvas
    /\ last' = g.last
    /\ pending' = g.raf
    /\ lastFrame' = [calls |-> pending, steps |-> g.steps,
                     renders |-> g.renders]

\* an animation frame d ms after the previous one: the browser calls every
\* callback requestAnimationFrame holds
Frame(d) ==
    /\ pending > 0
    /\ frames < MaxFrames
    /\ clock' = clock + d
    /\ frames' = frames + 1
    /\ Deliver(Loops(GameState, pending, clock + d))
    /\ UNCHANGED <<keyState, options, currentScene, lastCall>>

Next ==
    \/ \E k \in ListenedKeys : KeyDown(k)
    \/ \E k \in ListenedKeys : KeyUp(k)
    \/ \E d \in Dts : Frame(d)

\* game.start()
Start ==
    /\ pending < MaxPending
    /\ running' = TRUE
    /\ lastTime' = clock
    /\ pending' = pending + 1
    /\ UNCHANGED <<keyState, clock, options, scenes, currentScene, scoreboard,
                   canvas, lastCall, frames, last, lastFrame>>

\* game.stop()
Stop ==
    /\ running' = FALSE
    /\ UNCHANGED <<keyState, clock, lastTime, options, scenes, currentScene,
                   pending, scoreboard, canvas, lastCall, frames, last,
                   lastFrame>>

NextLoop ==
    \/ Next
    \/ Start
    \/ Stop

\* scenes holds the scene objects of game.scenes under their names, which
\* are the names of Registered, and under Detached the object that is
\* game.currentScene when game.scenes no longer holds it.
Detached == "(detached)"

Registered == DOMAIN scenes \ {Detached}

\* game.scenes[name] = scene: the entry is replaced; an object that was the
\* active one stays the active one, out of game.scenes
Register(name, scn) ==
    IF currentScene = name /\ name \in Registered
    THEN (name :> scn) @@ (Detached :> scenes[name]) @@ scenes
    ELSE (name :> scn) @@ scenes

\* game.currentScene after game.scenes[name] = scene
ActiveAfterRegister(name) ==
    IF currentScene = name /\ name \in Registered THEN Detached
    ELSE currentScene

\* game.currentScene = scn with the object registered under name: an object
\* held only by game.currentScene is dropped
Activate(held, name) == [n \in DOMAIN held \ {Detached} |-> held[n]]

\* game.scene(name, builderFn) with the builder b
Scene(name, b) ==
    /\ lastCall.calls < MaxCalls
    /\ LET built == CallBuilder(createEmptyScene(name), b)
       IN  /\ scenes' = IF built.threw THEN scenes
                        ELSE Register(name, built.scn)
           /\ currentScene' = IF built.threw THEN currentScene
                              ELSE ActiveAfterRegister(name)
           /\ lastCall' = [op |-> "scene", name |-> name, builder |-> b,
                           error |-> IF built.threw THEN "TypeError" ELSE Null,
                           registered |-> Registered,
                           current |-> currentScene,
                           calls |-> lastCall.calls + 1]
    /\ UNCHANGED <<keyState, clock, running, lastTime, options,
                   pending, scoreboard, canvas, frames, last, lastFrame>>

\* game.scenes[name] is truthy
Found(name) == name \in Registered \/ name \in ObjectPrototype

\* game.useScene(name)
UseScene(name) ==
    /\ lastCall.calls < MaxCalls
    /\ currentScene' = IF Found(name) THEN name ELSE currentScene
    /\ scenes' = IF Found(name) THEN Activate(scenes, name) ELSE scenes
    /\ lastCall' = [op |-> "useScene", name |-> name, builder |-> Null,
                    error |-> IF Found(name) THEN Null ELSE "Error",
                    registered |-> Registered, current |-> currentScene,
                    calls |-> lastCall.calls + 1]
    /\ UNCHANGED <<keyState, clock, running, lastTime, options,
                   pending, scoreboard, canvas, frames, last, lastFrame>>

\* game.loadSceneFromDOM(root): the scene is registered and made active
LoadSceneFromDOM(root) ==
    /\ lastCall.calls < MaxCalls
    /\ scenes' = Activate((root.id :> loadSceneFromDOM(root, options)) @@ scenes,
                          root.id)
    /\ currentScene' = root.id
    /\ lastCall' = [op |-> "loadSceneFromDOM", name |-> root.id,
                    builder |-> Null, error |-> Null,
                    registered |-> Registered, current |-> currentScene,
                    calls |-> lastCall.calls + 1]
    /\ UNCHANGED <<keyState, clock, running, lastTime, options,
                   pending, scoreboard, canvas, frames, last, lastFrame>>

\* game.createScoreboard(options)
CreateScoreboard ==
    /\ ~scoreboard.attached
    /\ scoreboard' = [attached |-> TRUE, rows |-> <<>>]
    /\ UNCHANGED <<keyState, clock, running, lastTime, options, scenes,
                   currentScene, pending, canvas, lastCall, frames, last,
                   lastFrame>>

NextScoreboard ==
    \/ Next
    \/ CreateScoreboard

NextScenes ==
    \/ Next
    \/ \E name \in RegisterNames, b \in Builders : Scene(name, b)
    \/ \E name \in UseNames : UseScene(name)

\* the roots loadSceneFromDOM is called with: an element with the id 'test'
\* that holds one entity, moved to the right by the key d
StageRoots ==
    { [id |-> "test", weapons |-> <<>>,
       nodes |-> <<[entity |-> "walker", y |-> 0,
                    controls |-> <<"right", ":", "d">>, weapon |-> <<>>]>>] }

NextRegistry ==
    \/ NextScenes
    \/ \E root \in StageRoots : LoadSceneFromDOM(root)

\* the page switches to the scene that is not the active one
NextBackstage ==
    \/ Next
    \/ \E name \in BackstageNames \ {currentScene} : UseScene(name)

SpecCombat == InitCombat /\ [][Next]_vars

SpecPhysics == InitPhysics /\ [][Next]_vars

SpecTimeline == InitTimeline /\ [][Next]_vars

SpecLoop == InitLoop /\ [][NextLoop]_vars

SpecOverlap == InitOverlap /\ [][Next]_vars

SpecScoreboard == InitScoreboard /\ [][NextScoreboard]_vars

SpecMultiplayer == InitMultiplayer /\ [][Next]_vars

SpecScenes == InitScenes /\ [][NextScenes]_vars

SpecCasualties == InitCasualties /\ [][Next]_vars

SpecCollision == InitCollision /\ [][Next]_vars

SpecWeapons == InitWeapons /\ [][Next]_vars

SpecControls == InitControls /\ [][Next]_vars

SpecAim == InitAim /\ [][Next]_vars

SpecRender == InitRender /\ [][Next]_vars

SpecRegistry == InitScenes /\ [][NextRegistry]_vars

SpecBackstage == InitBackstage /\ [][NextBackstage]_vars

(***************************************************************************)
(* Vocabulary of the properties.  last describes the most recent update:   *)
(* Before are the entities it started with, CombatIn the entities after    *)
(* its pass over the entities (what handlePvp was given), Store the        *)
(* entities it left in the scene.  Entities are matched by id.             *)
(***************************************************************************)
Elements(seq) == {seq[k] : k \in 1..Len(seq)}

Store == Elements(scenes[currentScene].entities)

Before == Elements(last.before)

CombatIn == Elements(last.combatIn)

Stepped == frames > 0

Actors(S) == {e \in S : e.kind # "projectile"}

Projectiles(S) == {e \in S : e.kind = "projectile"}

\* the entity of S that is the object e
In(S, e) == CHOOSE x \in S : x.id = e.id

Has(S, e) == \E x \in S : x.id = e.id

\* a and b carry the same team label and it is not null
ShareTeam(a, b) == a.team # Null /\ a.team = b.team

\* the projectile events of the last combat that name projectile p
HitsBy(p) ==
    {k \in 1..Len(last.hits) :
        last.hits[k].kind = "projectile" /\ last.hits[k].src = p.id}

\* the actors of the last combat that projectile p overlapped and could hurt
Targets(p) ==
    {a \in Actors(CombatIn) :
        a.name # p.owner /\ ~ShareTeam(p, a) /\ checkOverlap(p, a)}

\* the actors of the last combat in damaging contact with actor a
Contacts(a) ==
    {b \in Actors(CombatIn) :
        b.id # a.id /\ ~ShareTeam(a, b) /\ checkOverlap(a, b)}

RECURSIVE DamageSum(_)
DamageSum(S) ==
    IF S = {} THEN 0
    ELSE LET p == CHOOSE x \in S : TRUE IN p.damage + DamageSum(S \ {p})

RECURSIVE CreditSum(_)
CreditSum(S) ==
    IF S = {} THEN 0
    ELSE LET p == CHOOSE x \in S : TRUE
         IN  p.damage * Cardinality(Targets(p)) + CreditSum(S \ {p})

(***************************************************************************)
(* C1.  An attack attempted at time now by an entity that has a weapon     *)
(* spawns no projectile and leaves lastAttack unchanged when               *)
(* now - lastAttack < cooldown, and spawns exactly one projectile and sets *)
(* lastAttack = now otherwise; cooldown is the resolved weapon's cooldown, *)
(* or 200 ms when the weapon has none.                                     *)
(***************************************************************************)
\* e attempted an attack in the last update
Attacked(e) ==
    /\ e.controls # NullControls
    /\ "attack" \in DOMAIN e.controls
    /\ e.controls.attack \in last.keys
    /\ e.weapon # NoWeapon

\* the projectiles the last update created for e
Shots(e) ==
    {p \in Projectiles(CombatIn) : p.owner = e.name /\ ~Has(Before, p)}

CooldownOf(e) ==
    LET weapon == AttackWeapon(e)
    IN  IF "cooldown" \in DOMAIN weapon THEN weapon.cooldown ELSE 200

C1_AttackCooldown ==
    Stepped =>
        \A e \in Before :
            Attacked(e) =>
                IF last.now - e.lastAttack < CooldownOf(e)
                THEN /\ Shots(e) = {}
                     /\ In(CombatIn, e).lastAttack = e.lastAttack
                ELSE /\ Cardinality(Shots(e)) = 1
                     /\ In(CombatIn, e).lastAttack = last.now

\* an attack let through after an earlier one, by a weapon without cooldown
C1_Witness ==
    /\ Stepped
    /\ \E e \in Before :
          /\ Attacked(e)
          /\ e.lastAttack > 0
          /\ "cooldown" \notin DOMAIN AttackWeapon(e)
          /\ last.now - e.lastAttack >= 200
          /\ Cardinality(Shots(e)) = 1

(***************************************************************************)
(* C2.  Two actors carrying the same non-null team label never lose health *)
(* to each other: no damage event of a combat has as its target an actor   *)
(* on the team of the actor that fired the projectile, or of the actor in  *)
(* contact.                                                                *)
(***************************************************************************)
\* actor a is the source of damage event h: it touched the target, or it is
\* the actor named as owner of the projectile that hit
Inflicted(a, h) ==
    \/ h.kind = "contact" /\ h.src = a.id
    \/ /\ h.kind = "projectile"
       /\ \E p \in Projectiles(CombatIn) : p.id = h.src /\ p.owner = a.name

HealthAfter(a) ==
    a.health - DamageSum({p \in Projectiles(CombatIn) : a \in Targets(p)})
             - 5 * Cardinality(Contacts(a))

C4_ProjectileHit ==
    (Stepped /\ CombatEnabled(scenes[currentScene])) =>
        /\ \A p \in Projectiles(CombatIn) : Targets(p) # {} => ~Has(Store, p)
        /\ \A a \in Actors(CombatIn) :
              ~a.dead =>
                 /\ Has(Store, a)
                 /\ In(Store, a).health = HealthAfter(a)
                 /\ In(Store, a).score =
                       a.score + CreditSum({p \in Projectiles(CombatIn) :
                                               p.owner = a.name})
                 /\ HealthAfter(a) > 0 => ~In(Store, a).dead

\* damage 10, owner score 0, target health 50: health 40, score 10,
\* projectile gone, target alive
C4_Witness ==
    /\ Stepped
    /\ currentScene = "hit"
    /\ \E p \in Projectiles(CombatIn), a \in Actors(CombatIn), o \in Actors(CombatIn) :
          /\ a \in Targets(p)
          /\ p.damage = 10 /\ p.owner = o.name /\ o.score = 0
          /\ a.health = 50 /\ a.team = Null
          /\ ~Has(Store, p)
          /\ In(Store, a).health = 40 /\ ~In(Store, a).dead
          /\ In(Store, o).score = 10

(***************************************************************************)
(* C5.  A projectile destroys itself on its first hit: it decreases the    *)
(* health of at most one actor, once.  (Stated as the claim; the code      *)
(* violates it.)                                                           *)
(***************************************************************************)
C5_OneHitPerProjectile ==
    Stepped => \A p \in Projectiles(CombatIn) : Cardinality(HitsBy(p)) <= 1

(***************************************************************************)
(* C6.  In every step, every unordered pair of actors that do not share a  *)
(* non-null team and whose boxes overlap costs both of them exactly 5      *)
(* health, once for the pair; two actors with health 100 on teams red and  *)
(* blue that overlap for 3 steps without projectiles both end at health 85 *)
(* and neither is dead.                                                    *)
(***************************************************************************)
\* the contact events of the last combat in which a was hurt by b
ContactEvents(a, b) ==
    {k \in 1..Len(last.hits) :
        /\ last.hits[k].kind = "contact"
        /\ last.hits[k].target = a.id
        /\ last.hits[k].src = b.id
        /\ last.hits[k].amount = 5}

C6_ContactDamage ==
    Stepped =>
        /\ \A a \in Actors(CombatIn), b \in Actors(CombatIn) :
              a.id # b.id =>
                 Cardinality(ContactEvents(a, b)) =
                    IF ~ShareTeam(a, b) /\ checkOverlap(a, b) THEN 1 ELSE 0
        /\ Projectiles(CombatIn) = {} =>
              \A a \in Actors(CombatIn) :
                  ~a.dead => In(Store, a).health =
                                a.health - 5 * Cardinality(Contacts(a))
        /\ (currentScene = "duel" /\ frames = 3) =>
              /\ Cardinality(Store) = 2
              /\ \A a \in Store : a.health = 85 /\ ~a.dead

\* the third step of the duel
C6_Witness ==
    /\ currentScene = "duel"
    /\ frames = 3
    /\ \E a \in Actors(CombatIn), b \in Actors(CombatIn) :
          /\ a.team = "red" /\ b.team = "blue"
          /\ checkOverlap(a, b)
          /\ a.health = 90 /\ b.health = 90
          /\ In(Store, a).health = 85 /\ In(Store, b).health = 85

(***************************************************************************)
(* C10.  A projectile is spawned with a life of 3000 ms; every step that   *)
(* starts with it in the store and in which it hits no actor takes exactly *)
(* dt from its life, and removes it from the store exactly when its life   *)
(* is then <= 0.                                                           *)
(***************************************************************************)
C10_ProjectileLife ==
    Stepped =>
        /\ \A p \in Projectiles(Store) : ~Has(Before, p) => p.life = 3000
        /\ \A p \in Projectiles(Before) :
              HitsBy(p) = {} =>
                 IF p.life - last.dt <= 0
                 THEN ~Has(Store, p)
                 ELSE Has(Store, p) /\ In(Store, p).life = p.life - last.dt

\* a projectile that hit nothing runs out of life, passing 0, and is removed
C10_Witness ==
    /\ Stepped
    /\ \E p \in Projectiles(Before) :
          /\ HitsBy(p) = {}
          /\ p.life > 0
          /\ p.life - last.dt < 0
          /\ ~Has(Store, p)

(***************************************************************************)
(* C3.  A controlled dynamic entity that the previous step left grounded   *)
(* and whose jump key is held gets the vertical velocity -jumpForce, to    *)
(* which the step adds gravity, and is no longer on the ground.  (Stated   *)
(* as the claim; the code violates it.)                                    *)
(***************************************************************************)
JumpHeld(e) ==
    /\ e.controls # NullControls
    /\ "jump" \in DOMAIN e.controls
    /\ e.controls.jump \in last.keys

C3_JumpWhenGrounded ==
    Stepped =>
        \A e \in Before :
            (e.physics = "dynamic" /\ e.onGround /\ JumpHeld(e)) =>
                /\ In(CombatIn, e).vy =
                      -e.jumpForce + Times(options.gravity, last.dt)
                /\ ~In(CombatIn, e).onGround

(***************************************************************************)
(* C7.  A dynamic entity that starts a step above a static entity and      *)
(* moves down onto it ends the step on the static entity's top edge with   *)
(* onGround = true and vertical velocity 0; in particular the entity at    *)
(* (0,9) of size (1,1) with velocity (0,+5), dt = 1 and gravity 0 over the *)
(* static entity at (0,10) of size (20,1) ends at y = 9.  (Stated as the   *)
(* claim; the code violates it.)                                           *)
(***************************************************************************)
\* d stands within the width of s, not below its top edge
Over(d, s) ==
    /\ d.physics = "dynamic"
    /\ s.physics = "static"
    /\ d.x >= s.x
    /\ d.x + d.w <= s.x + s.w
    /\ d.y + d.h <= s.y

\* the vertical velocity the last update integrated d with
FallSpeed(d) == d.vy + Times(options.gravity, last.dt)

C7_LandsOnStatic ==
    Stepped =>
        \A d \in Before, s \in Before :
            ( /\ Over(d, s)
              /\ d.controls = NullControls
              /\ d.vx = 0
              /\ d.y + d.h + Times(FallSpeed(d), last.dt) > s.y ) =>
                /\ In(Store, d).y = s.y - d.h
                /\ In(Store, d).onGround
                /\ In(Store, d).vy = 0

(***************************************************************************)
(* C8.  A dynamic entity resting on top of a static entity with zero       *)
(* horizontal velocity and no control input has, after each step and for   *)
(* every gravity, its vertical position unchanged and onGround true.       *)
(* (Stated as the claim; the code violates it.)                            *)
(***************************************************************************)
NoInput(e) ==
    \/ e.controls = NullControls
    \/ \A a \in DOMAIN e.controls : e.controls[a] \notin last.keys

C8_RestingStable ==
    Stepped =>
        \A d \in Before, s \in Before :
            ( /\ Over(d, s)
              /\ d.y + d.h = s.y
              /\ d.vx = 0
              /\ d.vy = 0
              /\ NoInput(d) ) =>
                /\ In(Store, d).y = d.y
                /\ In(Store, d).onGround

(***************************************************************************)
(* C9.  An entity with physics 'static' never moves: a step leaves its     *)
(* position as it was, whatever its velocity, its controls and the keys    *)
(* held.  (Stated as the claim; the code violates it.)                     *)
(***************************************************************************)
C9_StaticNeverMoves ==
    Stepped =>
        \A e \in Before :
            (e.physics = "static" /\ Has(Store, e)) =>
                (In(Store, e).x = e.x /\ In(Store, e).y = e.y)

(***************************************************************************)
(* The timeline.  Events is the event list of the active scene, and        *)
(* last.events the list the most recent update started with; the two are   *)
(* matched by index.  An event was invoked by the update when its          *)
(* callback's counter grew.                                                *)
(***************************************************************************)
Events == scenes[currentScene].timelineEvents

\* the scene's elapsed time after the time advance of the most recent update
Elapsed == last.time + last.dt

Invoked(k) == Events[k].calls > last.events[k].calls

\* event k was not fired before the most recent update and the update's time
\* advance reached its time
FirstDue(k) == ~last.events[k].fired /\ Elapsed >= last.events[k].time

\* C11: an event registered with scene.at(t, fn) is invoked exactly in the
\* first step whose time advance makes the scene's elapsed time reach or pass
\* t, once in that step, and in no other step: its callback has run once when
\* it is fired and never otherwise
C11_EventFiresOnce ==
    Stepped =>
        \A k \in 1..Len(last.events) :
            /\ Events[k].calls =
                   last.events[k].calls + (IF FirstDue(k) THEN 1 ELSE 0)
            /\ Events[k].calls = (IF Events[k].fired THEN 1 ELSE 0)
            /\ Events[k].fired <=> (last.events[k].fired \/ FirstDue(k))

\* a step jumped past the time of an event and invoked it, while an event
\* invoked by an earlier step was left alone
C11_Witness ==
    /\ Stepped
    /\ \E k \in 1..Len(last.events) :
          /\ Invoked(k)
          /\ Elapsed > last.events[k].time
    /\ \E k \in 1..Len(last.events) :
          /\ last.events[k].fired
          /\ last.events[k].time <= last.time
          /\ Events[k].calls = 1

\* the most recent update invoked an event whose callback throws
ThrowStep ==
    \E k \in 1..Len(last.events) : Invoked(k) /\ Events[k].fn = "throw"

\* the entities without controls that were alive before the most recent
\* update: its entity pass moves them by their velocity
Drifting == {e \in Actors(Before) : e.controls = NullControls /\ e.health > 0}

\* C12: in a step that invokes a throwing timeline callback the error is
\* caught: the event is fired, every event due in the step has been invoked,
\* the entity pass has moved the entities, combat and reaping have been
\* applied to its result, and the frame has rendered the scene the step left
C12_CallbackErrorCaught ==
    (Stepped /\ ThrowStep) =>
        /\ \A k \in 1..Len(last.events) :
              FirstDue(k) => (Invoked(k) /\ Events[k].fired)
        /\ \A e \in Drifting :
              /\ Has(CombatIn, e)
              /\ In(CombatIn, e).x = e.x + Times(e.vx, last.dt)
        /\ scenes[currentScene].entities =
               removeDead(handlePvp(last.combatIn).ents)
        /\ lastFrame.renders = lastFrame.steps
        /\ canvas = render(scenes[currentScene])
        /\ pending = 1

\* a throwing callback was invoked, an event after it in the list was invoked
\* in the same step, and the step dealt a hit and reaped the projectile
C12_Witness ==
    /\ Stepped
    /\ \E k, j \in 1..Len(last.events) :
          /\ k < j
          /\ Invoked(k) /\ Events[k].fn = "throw"
          /\ Invoked(j)
    /\ last.hits # <<>>
    /\ \E e \in CombatIn : ~Has(Store, e)

(***************************************************************************)
(* The frame loop.                                                         *)
(***************************************************************************)
\* C13: whatever start() and stop() calls come between the animation frames,
\* requestAnimationFrame never holds more than one loop callback, and no
\* animation frame runs more than one update and one render
C13_OneCallbackPending ==
    /\ pending <= 1
    /\ lastFrame.steps <= 1
    /\ lastFrame.renders <= 1

\* the most recent update invoked a callback that calls game.stop()
StopStep ==
    \E k \in 1..Len(last.events) : Invoked(k) /\ Events[k].fn = "stop"

\* the most recent update went through all its phases and was rendered
StepCompleted ==
    /\ \A k \in 1..Len(last.events) : FirstDue(k) => Invoked(k)
    /\ \A e \in Drifting : In(CombatIn, e).x = e.x + Times(e.vx, last.dt)
    /\ scenes[currentScene].entities =
           removeDead(handlePvp(last.combatIn).ents)
    /\ canvas = render(scenes[currentScene])

\* a step of the game while it is and stays stopped changes no scene, paints
\* nothing, and requests no frame; an animation frame leaves no callback
StoppedStill ==
    (~running /\ ~running') =>
        /\ scenes' = scenes
        /\ canvas' = canvas
        /\ scoreboard' = scoreboard
        /\ lastTime' = lastTime
        /\ last' = last
        /\ pending' <= pending
        /\ (frames' # frames => pending' = 0)

\* C14: a step during which stop() is called completes and is rendered, and
\* from then on, as long as start() is not called, no frame callback changes
\* a scene, renders, or requests another frame
C14_StoppedStaysStopped ==
    /\ [](StopStep => StepCompleted)
    /\ [][StoppedStill]_vars

\* stop() was called during a step, and a later animation frame delivered a
\* callback that ran no update
C14_Witness ==
    /\ ~running
    /\ StopStep
    /\ lastFrame.calls > 0
    /\ lastFrame.steps = 0
    /\ pending = 0

(***************************************************************************)
(* Scene registration and activation.  lastCall describes the most recent  *)
(* call of game.scene or game.useScene.                                    *)
(***************************************************************************)
\* C15: useScene(name) with a name that is not registered throws and leaves
\* the active scene and the registered names as they were; with a registered
\* name it throws nothing and makes the scene of that name the active one
C15_UseScene ==
    lastCall.op = "useScene" =>
        /\ Registered = lastCall.registered
        /\ IF lastCall.name \in lastCall.registered
           THEN lastCall.error = Null /\ currentScene = lastCall.name
           ELSE lastCall.error # Null /\ currentScene = lastCall.current

\* C16: game.scene('test', ({ add }) => { add.entity({name: 'player', ...}) })
\* throws nothing and registers the scene 'test' holding one entity, named
\* 'player'
C16_ReadmeBuilder ==
    (lastCall.op = "scene" /\ lastCall.builder = "readme") =>
        /\ lastCall.error = Null
        /\ lastCall.name \in Registered
        /\ Len(scenes[lastCall.name].entities) = 1
        /\ scenes[lastCall.name].entities[1].name = "player"

(***************************************************************************)
(* The multiplayer flags.                                                  *)
(***************************************************************************)
\* the game option or the flag of the active scene is false
CombatOff == ~(options.multiplayer /\ scenes[currentScene].multiplayer)

\* C17: in a step with the game option or the scene flag false no combat
\* runs: the step leaves exactly the entities its entity pass did not mark
\* dead, as the pass left them, and every entity it keeps has the health and
\* the score it had before the step, whatever overlaps
C17_CombatNeedsBothFlags ==
    (Stepped /\ CombatOff) =>
        /\ scenes[currentScene].entities = removeDead(last.combatIn)
        /\ \A e \in Before :
              Has(Store, e) =>
                  /\ In(Store, e).health = e.health
                  /\ In(Store, e).score = e.score

\* a step with a flag false in which a projectile overlapped an actor it
\* would have hit
C17_Witness ==
    /\ Stepped
    /\ CombatOff
    /\ handlePvp(last.combatIn).hits # <<>>
    /\ \E e \in Projectiles(CombatIn) : ~e.dead /\ Has(Store, e)

(***************************************************************************)
(* The order of the phases of a frame.  A "snap" callback copies the       *)
(* entity list as it is when the callback is called, so what it has seen   *)
(* tells where in the step the timeline ran.                               *)
(***************************************************************************)
\* the "snap" events the most recent update invoked
Snapped ==
    {k \in 1..Len(last.events) : Invoked(k) /\ Events[k].fn = "snap"}

\* C18 as stated: the timeline callbacks of a frame are invoked after the
\* frame's entity movement, combat and reaping and before its render: a
\* callback sees the entities the step leaves in the scene
C18_TimelineAfterReaping ==
    Stepped =>
        /\ \A k \in Snapped : Events[k].seen = scenes[currentScene].entities
        /\ canvas = render(scenes[currentScene])

\* C18 amended: the phases of a frame run in the order timeline check,
\* control resolution and physics, combat, reaping, render.  A timeline
\* callback sees the entities as they were before the step moved them; the
\* result of the entity pass enters combat, the result of combat is reaped,
\* and the render paints what the step left.
C18_TimelineFirst ==
    Stepped =>
        /\ \A k \in Snapped : Events[k].seen = last.before
        /\ Len(last.combatIn) >= Len(last.before)
        /\ \A e \in Drifting : In(CombatIn, e).x = e.x + Times(e.vx, last.dt)
        /\ scenes[currentScene].entities =
               removeDead(handlePvp(last.combatIn).ents)
        /\ canvas = render(scenes[currentScene])

\* a step invoked a callback and then moved a projectile into an actor, dealt
\* the hit and reaped the projectile: the callback saw none of it
C18_Witness ==
    /\ Stepped
    /\ Snapped # {}
    /\ last.hits # <<>>
    /\ \E e \in CombatIn : ~Has(Store, e)
    /\ \A k \in Snapped : Events[k].seen # scenes[currentScene].entities

(***************************************************************************)
(* The scoreboard.  last.boards lists the argument of every call of        *)
(* scoreboard.update the most recent update made, and last.attached tells  *)
(* whether a scoreboard was attached then.                                 *)
(***************************************************************************)
\* the position of the entity named name in the scene's entity list
StorePos(name) ==
    FindIndex(scenes[currentScene].entities, LAMBDA e: e.name = name)

Rows == scoreboard.rows

\* C19: a step with a scoreboard attached calls its update once, with the
\* entities left after reaping whose trackScore is true, none of them dead;
\* the rows list these players, one row each, by descending score, players of
\* equal score in the order of the entity list; the entity list itself is in
\* the order reaping left it
C19_ScoreboardUpdate ==
    (Stepped /\ last.attached) =>
        /\ Len(last.boards) = 1
        /\ last.boards[1] =
               SelectSeq(scenes[currentScene].entities, LAMBDA e: e.trackScore)
        /\ \A k \in 1..Len(last.boards[1]) : ~last.boards[1][k].dead
        /\ Len(Rows) = Len(last.boards[1])
        /\ {Rows[k].name : k \in 1..Len(Rows)} =
               {last.boards[1][k].name : k \in 1..Len(Rows)}
        /\ \A i, j \in 1..Len(Rows) :
              i < j =>
                  /\ Rows[i].score >= Rows[j].score
                  /\ Rows[i].score = Rows[j].score =>
                         StorePos(Rows[i].name) < StorePos(Rows[j].name)
        /\ \A k \in 1..Len(Rows) :
              Rows[k].score =
                  scenes[currentScene].entities[StorePos(Rows[k].name)].score
        /\ scenes[currentScene].entities =
               removeDead(handlePvp(last.combatIn).ents)

\* a step with the scoreboard attached reaped a tracked player and left an
\* entity that is not tracked, and the rows hold players of different scores
\* and players of equal score, in an order that is not the order of the
\* entity list
C19_Witness ==
    /\ Stepped
    /\ last.attached
    /\ \E e \in CombatIn : e.trackScore /\ ~Has(Store, e)
    /\ \E e \in Store : ~e.trackScore
    /\ \E i, j \in 1..Len(Rows) : i < j /\ Rows[i].score > Rows[j].score
    /\ \E i, j \in 1..Len(Rows) : i < j /\ Rows[i].score = Rows[j].score
    /\ \E i, j \in 1..Len(Rows) :
          i < j /\ StorePos(Rows[i].name) > StorePos(Rows[j].name)

(***************************************************************************)
(* checkOverlap.                                                           *)
(***************************************************************************)
\* C20: checkOverlap(A, B) equals checkOverlap(B, A) for all boxes A and B:
\* here for every two entities the scene holds and every two entities the
\* combat of the most recent step compared
C20_OverlapSymmetric ==
    /\ \A a, b \in Store : checkOverlap(a, b) = checkOverlap(b, a)
    /\ \A a, b \in CombatIn : checkOverlap(a, b) = checkOverlap(b, a)

\* the combat of a step found two different actors overlapping, and the
\* scene holds an empty box
C20_Witness ==
    /\ Stepped
    /\ last.hits # <<>>
    /\ \E a, b \in CombatIn :
          /\ a.id # b.id
          /\ checkOverlap(a, b)
          /\ a.w = 0

(***************************************************************************)
(* Entities that die during a step.  An entity that is dead in CombatIn    *)
(* was marked dead by the entity pass of the most recent update: what an   *)
(* earlier update marked dead it has removed.                              *)
(***************************************************************************)
\* the damage events of the last combat that hurt actor a
HitsOn(a) == {k \in 1..Len(last.hits) : last.hits[k].target = a.id}

\* the contact events of the last combat in which actor a hurt another
ContactsFrom(a) ==
    {k \in 1..Len(last.hits) :
        last.hits[k].kind = "contact" /\ last.hits[k].src = a.id}

\* C21 as stated: the combat of a step involves only live entities: a
\* projectile the entity pass marked dead hurts no actor and earns its owner
\* no score, and an actor the entity pass marked dead neither loses health
\* nor hurts an actor it touches
C21_CombatOnlyLive ==
    Stepped =>
        /\ \A p \in Projectiles(CombatIn) : p.dead => HitsBy(p) = {}
        /\ \A o \in Actors(CombatIn) :
              ( /\ Has(Store, o)
                /\ \A p \in Projectiles(CombatIn) : p.owner = o.name => p.dead )
                  => In(Store, o).score = o.score
        /\ \A a \in Actors(CombatIn) :
              a.dead => (HitsOn(a) = {} /\ ContactsFrom(a) = {})

(***************************************************************************)
(* resolveCollision.  The entity pass of update calls it for a dynamic     *)
(* entity d and a static entity s once d has been moved by its velocity.   *)
(***************************************************************************)
\* the dynamic entities without controls and the static entities at rest
\* before the most recent update
Movers == {d \in Before : d.physics = "dynamic" /\ d.controls = NullControls}

Obstacles ==
    {o \in Before : o.physics = "static" /\ o.controls = NullControls
                                         /\ o.vx = 0 /\ o.vy = 0}

\* d as the most recent update handed it to resolveCollision
AtCollision(d) ==
    Integrate(ApplyGravity([d EXCEPT !.onGround = FALSE], last.dt), last.dt)

\* the extent of the intersection of the boxes a and b on each axis
OverlapX(a, b) == Min(a.x + a.w, b.x + b.w) - Max(a.x, b.x)

OverlapY(a, b) == Min(a.y + a.h, b.y + b.h) - Max(a.y, b.y)

\* the boxes a and b overlap with positive area
PositiveArea(a, b) == OverlapX(a, b) > 0 /\ OverlapY(a, b) > 0

\* C22 as stated: resolveCollision pushes the dynamic entity out of the
\* static one: boxes that overlap with positive area before the call do not
\* overlap with positive area after it
C22_PushedOut ==
    Stepped =>
        \A d \in Movers, o \in Obstacles :
            PositiveArea(AtCollision(d), o) =>
                ~PositiveArea(In(CombatIn, d), In(CombatIn, o))

\* what resolveCollision is to make of the entity pre next to the box o
Resolved(pre, o) ==
    IF OverlapX(pre, o) <= 0 \/ OverlapY(pre, o) <= 0 THEN pre
    ELSE IF OverlapX(pre, o) < OverlapY(pre, o)
    THEN [pre EXCEPT !.x = IF pre.x < o.x THEN @ - OverlapX(pre, o)
                           ELSE @ + OverlapX(pre, o),
                     !.vx = 0]
    ELSE [pre EXCEPT !.y = IF pre.y < o.y THEN @ - OverlapY(pre, o)
                           ELSE @ + OverlapY(pre, o),
                     !.vy = 0,
                     !.onGround = pre.y < o.y]

\* C27: resolveCollision acts on one axis only.  With both overlaps positive
\* it moves the dynamic entity by the smaller overlap on that overlap's axis,
\* the vertical one when they are equal, away from the side its origin is
\* on, sets that axis's velocity to 0 and onGround exactly when it pushed
\* upward, and leaves the other position component, the other velocity and
\* every other field alone; with an overlap <= 0 it leaves the entity as it
\* is.  The static entity is never changed.
C27_OneAxisOnly ==
    Stepped =>
        \A d \in Movers, o \in Obstacles :
            /\ In(CombatIn, o) = o
            /\ In(CombatIn, d) = Resolved(AtCollision(d), o)
            /\ PositiveArea(AtCollision(d), o) =>
                  /\ (In(CombatIn, d).x # AtCollision(d).x)
                         # (In(CombatIn, d).y # AtCollision(d).y)
                  /\ (In(CombatIn, d).vx # AtCollision(d).vx)
                         => In(CombatIn, d).x # AtCollision(d).x
                  /\ (In(CombatIn, d).vy # AtCollision(d).vy)
                         => In(CombatIn, d).y # AtCollision(d).y
                  /\ In(CombatIn, d).onGround
                         => In(CombatIn, d).y < AtCollision(d).y

\* equal overlaps: the entity was pushed upward, is on the ground, and has
\* kept its horizontal velocity
C27_Witness ==
    /\ Stepped
    /\ \E d \in Movers, o \in Obstacles :
          /\ PositiveArea(AtCollision(d), o)
          /\ OverlapX(AtCollision(d), o) = OverlapY(AtCollision(d), o)
          /\ In(CombatIn, d).y < AtCollision(d).y
          /\ In(CombatIn, d).x = AtCollision(d).x
          /\ In(CombatIn, d).onGround
          /\ In(CombatIn, d).vy = 0
          /\ In(CombatIn, d).vx # 0

(***************************************************************************)
(* Weapon resolution.  An entity loaded from the DOM keeps the text of its *)
(* data-hs-weapon attribute, and its scene the text of data-hs-weapons.    *)
(***************************************************************************)
\* the presets a data-hs-weapons text declares: in every entry the name
\* before the first separator, and all the properties behind it
DeclaredEntries(text) == {e \in Elements(Split(text, {"|"})) : e # <<>>}

DeclaredPresets(text) ==
    [n \in {e[1] : e \in DeclaredEntries(text)} |->
        Numbers(parsePropsText(
            LET e == CHOOSE e \in DeclaredEntries(text) : e[1] = n
            IN  SubSeq(e, 3, Len(e))))]

\* the presets an entity of the active scene can name: those defined on the
\* scene and those registered on the game
Presets ==
    DeclaredPresets(scenes[currentScene].weaponsAttr)
        @@ options.weaponDefinitions

\* the preset e's weapon attribute names, or Null, and the fields it gives
\* inline
Reference(e) ==
    IF Len(e.weaponAttr) = 1 THEN e.weaponAttr[1]
    ELSE IF "preset" \in DOMAIN parsePropsText(e.weaponAttr)
    THEN parsePropsText(e.weaponAttr).preset
    ELSE Null

Inline(e) ==
    IF Len(e.weaponAttr) = 1 THEN <<>>
    ELSE Numbers(parsePropsText(e.weaponAttr))

\* the values tryAttack uses for a field no weapon object gives
Fallback ==
    [damage |-> 10, cooldown |-> 200, projectileSpeed |-> 10000,
     color |-> "#ff6ad5", size |-> <<300, 300>>]

\* the value of field f an attack of e is to use
Claimed(e, f) ==
    IF f \in DOMAIN Inline(e) THEN Inline(e)[f]
    ELSE IF Reference(e) \in DOMAIN Presets
            /\ f \in DOMAIN Presets[Reference(e)]
    THEN Presets[Reference(e)][f]
    ELSE IF f \in DOMAIN options.defaultWeapon THEN options.defaultWeapon[f]
    ELSE Fallback[f]

\* C23 as stated: for every weapon field the value an attack uses is the
\* entity's inline override when given, otherwise the value of the preset
\* the entity names, registered on the game or defined on its scene, and
\* otherwise the default weapon's value: the attack is let through by the
\* cooldown so found, and its projectile has the damage, speed, color and
\* size so found
C23_WeaponFields ==
    Stepped =>
        \A e \in Before :
            Attacked(e) =>
                /\ (Shots(e) # {}) <=>
                       (last.now - e.lastAttack >= Claimed(e, "cooldown"))
                /\ \A p \in Shots(e) :
                       /\ p.damage = Claimed(e, "damage")
                       /\ p.vx = Claimed(e, "projectileSpeed")
                       /\ p.color = Claimed(e, "color")
                       /\ <<p.w, p.h>> = Claimed(e, "size")

(***************************************************************************)
(* The control phase.                                                      *)
(***************************************************************************)
\* the entities with a control scheme before the most recent update
Controlled == {e \in Before : e.controls # NullControls}

\* 1 when the key of e's action is held during the most recent update
HeldNow(e, action) ==
    IF action \in DOMAIN e.controls /\ e.controls[action] \in last.keys
    THEN 1 ELSE 0

\* C24 as stated: after the control phase of a step the horizontal velocity
\* of an entity with a control scheme is speed * (held(right) - held(left))
\* for its configured speed, whatever that speed and whatever the velocity
\* was before
C24_HorizontalVelocity ==
    Stepped =>
        \A e \in Controlled :
            In(CombatIn, e).vx =
                e.speed * (HeldNow(e, "right") - HeldNow(e, "left"))

\* e is moved freely on both axes: its mode is top-down or it has no physics
Free(e) == e.moveMode = "topdown" \/ e.physics = "none"

\* the speed the control phase moves e with: the configured speed, and 4 for
\* a configured speed of 0
ControlSpeed(e) == IF e.speed = 0 THEN 4000 ELSE e.speed

\* what the step adds to the vertical velocity of e behind the control phase
GravityGain(e) ==
    IF e.physics = "dynamic" THEN Times(options.gravity, last.dt) ELSE 0

Facing(e) == IF In(CombatIn, e).vx >= 0 THEN 1 ELSE -1

\* C26 as stated: the projectile of an attack lies at the attacker's leading
\* edge on the side the attacker faces and does not overlap the attacker's
\* box; its horizontal velocity is facing * projectileSpeed and its vertical
\* velocity 0
C26_LeadingEdge ==
    Stepped =>
        \A e \in Before :
            \A p \in Shots(e) :
                /\ Facing(e) = 1 => p.x >= e.x + e.w
                /\ Facing(e) = -1 => p.x + p.w <= e.x
                /\ ~checkOverlap(p, e)
                /\ p.vx = Facing(e) *
                             NumberOr(AttackWeapon(e), "projectileSpeed", 10000)
                /\ p.vy = 0

\* the entities the most recent update marked dead: in its entity pass, or
\* as a projectile that hit an actor in its combat
MarkedDead == {e \in CombatIn : e.dead \/ HitsBy(e) # {}}

\* the ids of the entities of a list, in the order of the list
Ids(ents) == [k \in 1..Len(ents) |-> ents[k].id]

\* C28: at the end of a step the scene's entity list holds no entity with
\* dead = true, holds every entity the step did not mark dead, and holds the
\* survivors in the order they had, which is the order of their creation
C28_Reaping ==
    Stepped =>
        /\ \A e \in Store : ~e.dead
        /\ \A e \in CombatIn : Has(Store, e) <=> e \notin MarkedDead
        /\ Ids(scenes[currentScene].entities) =
               Ids(SelectSeq(last.combatIn, LAMBDA e: e \notin MarkedDead))
        /\ \A i, j \in 1..Len(scenes[currentScene].entities) :
               i < j => scenes[currentScene].entities[i].id
                           < scenes[currentScene].entities[j].id

\* a step removed a dead actor from between two entities that stay
C28_Witness ==
    /\ Stepped
    /\ \E k \in 2..(Len(last.combatIn) - 1) :
          /\ last.combatIn[k].dead
          /\ last.combatIn[k].kind # "projectile"
          /\ ~Has(Store, last.combatIn[k])
          /\ Has(Store, last.combatIn[k - 1])
          /\ Has(Store, last.combatIn[k + 1])

\* C29: an entity that is no projectile and is marked dead in a step has,
\* when the entity pass of the step is over, the position it had before the
\* step moved it, whatever its velocity and its collisions; a projectile
\* marked dead stays where the step moved it
C29_DeadRolledBack ==
    Stepped =>
        \A e \in Before :
            (Has(CombatIn, e) /\ In(CombatIn, e).dead) =>
                IF e.kind # "projectile"
                THEN /\ In(CombatIn, e).x = e.x
                     /\ In(CombatIn, e).y = e.y
                ELSE /\ In(CombatIn, e).x = e.x + Times(e.vx, last.dt)
                     /\ In(CombatIn, e).y = e.y + Times(e.vy, last.dt)

\* a falling actor died in a step that had moved it and pushed it out of the
\* ground, and is where it was before the step
C29_Witness ==
    /\ Stepped
    /\ \E e \in Actors(Before) :
          /\ In(CombatIn, e).dead
          /\ e.physics = "dynamic"
          /\ e.vy # 0
          /\ In(CombatIn, e).vy = 0
          /\ In(CombatIn, e).y = e.y
          /\ In(CombatIn, e).x = e.x

(***************************************************************************)
(* The order of the timeline callbacks.  Every callback notes the fired    *)
(* flags it finds on the scene's events when it is called, which tells     *)
(* which events the forEach had handled before it.                         *)
(***************************************************************************)
\* event j was handled before the callback of event k was called
FiredAt(k, j) == Events[k].flags[j]

\* C30: every unfired event whose time the scene's elapsed time has reached
\* is invoked in the step that reached it; the callbacks of one step run in
\* registration order, whatever the events' times are: when the callback of
\* event k is called, the events fired are those fired by earlier steps and
\* the due events registered before k; and event k itself has fired = true
\* when its callback is called
C30_RegistrationOrder ==
    Stepped =>
        \A k \in 1..Len(last.events) :
            /\ FirstDue(k) => Invoked(k)
            /\ Invoked(k) =>
                  /\ Len(Events[k].flags) = Len(last.events)
                  /\ FiredAt(k, k)
                  /\ \A j \in 1..Len(last.events) :
                        j # k =>
                            (FiredAt(k, j) <=>
                                \/ last.events[j].fired
                                \/ j < k /\ FirstDue(j))

\* one step invoked two events of which the one registered later has the
\* earlier time: the callback of the later one found the earlier one fired,
\* the callback of the earlier one found the later one unfired and itself
\* fired
C30_Witness ==
    /\ Stepped
    /\ \E k, j \in 1..Len(last.events) :
          /\ k < j
          /\ Invoked(k) /\ Invoked(j)
          /\ last.events[j].time < last.events[k].time
          /\ FiredAt(j, k)
          /\ ~FiredAt(k, j)
          /\ FiredAt(k, k)

(***************************************************************************)
(* render.  canvas is the sequence of rectangles the most recent render    *)
(* painted, in the order painted; every rectangle carries the id of the    *)
(* entity it was painted for.                                              *)
(***************************************************************************)
\* the place of the entity with the given id in the active scene's list
PlaceOf(id) ==
    CHOOSE k \in 1..Len(scenes[currentScene].entities) :
        scenes[currentScene].entities[k].id = id

\* rectangle r shows the entity ent
Shows(r, ent) ==
    /\ r.id = ent.id
    /\ r.x = ent.x /\ r.y = ent.y /\ r.z = ent.z
    /\ r.w = ent.w /\ r.h = ent.h

\* C31: render paints every entity of the scene once, in ascending depth
\* order, entities of equal depth in the order of the scene's list; and the
\* scene's list is after the render what update left: the same entities in
\* the same order with the same fields
C31_PainterOrder ==
    Stepped =>
        /\ Len(canvas) = Len(scenes[currentScene].entities)
        /\ \A e \in Store : \E k \in 1..Len(canvas) : Shows(canvas[k], e)
        /\ \A i, j \in 1..Len(canvas) :
              i < j =>
                  \/ canvas[i].z < canvas[j].z
                  \/ /\ canvas[i].z = canvas[j].z
                     /\ PlaceOf(canvas[i].id) < PlaceOf(canvas[j].id)
        /\ scenes[currentScene].entities =
               removeDead(handlePvp(last.combatIn).ents)

\* a render painted a scene whose list is not in depth order and holds two
\* entities of equal depth: an entity late in the list was painted before
\* one early in the list, and two of equal depth in list order
C31_Witness ==
    /\ Stepped
    /\ \E i, j \in 1..Len(canvas) :
          /\ i < j
          /\ canvas[i].z < canvas[j].z
          /\ PlaceOf(canvas[i].id) > PlaceOf(canvas[j].id)
    /\ \E i, j \in 1..Len(canvas) :
          /\ i < j
          /\ canvas[i].z = canvas[j].z
          /\ \E k \in 1..Len(canvas) :
                /\ canvas[k].z # canvas[i].z
                /\ PlaceOf(canvas[i].id) < PlaceOf(canvas[k].id)
                /\ PlaceOf(canvas[k].id) < PlaceOf(canvas[j].id)

(***************************************************************************)
(* Actors without health.  handlePvp lowers an actor's health and leaves   *)
(* it in the list; the entity pass of the next update marks it dead.       *)
(***************************************************************************)
\* the actors whose health was used up when the most recent update began
Spent == {e \in Actors(Before) : e.health <= 0}

\* C32: an actor whose health is <= 0 when a step begins does nothing in that
\* step: it spawns no projectile and its lastAttack stays, also with its
\* attack key held and its cooldown over
C32_SpentActorsIdle ==
    Stepped =>
        \A e \in Spent :
            /\ Shots(e) = {}
            /\ Has(CombatIn, e) => In(CombatIn, e).lastAttack = e.lastAttack

(***************************************************************************)
(* Static entities in combat.  The scenes' static entities start with      *)
(* health and meet no projectile, so only contact can cost them health.    *)
(***************************************************************************)
\* the contact events of the last combat that hurt actor a
ContactsOn(a) == {k \in HitsOn(a) : last.hits[k].kind = "contact"}

\* C33: an entity with physics 'static' never loses health to the contact
\* with another actor, so no step marks it dead or removes it from the scene
C33_StaticsUnhurt ==
    Stepped =>
        /\ \A o \in Actors(CombatIn) : o.physics = "static" => ContactsOn(o) = {}
        /\ \A o \in Actors(Before) :
              o.physics = "static" =>
                  /\ Has(Store, o)
                  /\ ~In(CombatIn, o).dead
                  /\ In(Store, o).health = o.health

(***************************************************************************)
(* The active scene and the scene map.                                     *)
(***************************************************************************)
\* C34: after any calls of scene(), loadSceneFromDOM() and useScene() the
\* active scene is null or the scene object that game.scenes holds under that
\* object's own name, also when a name has been registered a second time
C34_ActiveIsRegistered ==
    \/ currentScene = Null
    \/ /\ currentScene \in Registered
       /\ scenes[currentScene].name = currentScene

(***************************************************************************)
(* Scenes that are registered and not active.                              *)
(***************************************************************************)
\* the names of the registered scenes that are not the active one
Inactive == Registered \ {currentScene}

\* C35: a step changes only the active scene: the elapsed time, the events
\* with their fired flags and the entities of every registered scene that is
\* not the active one are after a frame what they were before it, so no
\* event of an inactive scene fires
C35_InactiveUntouched ==
    [][frames' # frames =>
          \A n \in Inactive :
              /\ n \in DOMAIN scenes'
              /\ scenes'[n].time = scenes[n].time
              /\ scenes'[n].timelineEvents = scenes[n].timelineEvents
              /\ scenes'[n].entities = scenes[n].entities
              /\ scenes'[n] = scenes[n]]_vars

\* a step ran while a scene that had been active before was inactive: the
\* step's time advance is past the time of an event of the inactive scene
\* that has not fired, as measured on either scene's clock, and the inactive
\* scene holds an entity with a velocity
C35_Witness ==
    /\ Stepped
    /\ lastFrame.steps > 0
    /\ lastCall.op = "useScene"
    /\ \E n \in Inactive :
          /\ scenes[n].time > 0
          /\ \E k \in 1..Len(scenes[n].timelineEvents) :
                /\ ~scenes[n].timelineEvents[k].fired
                /\ scenes[n].timelineEvents[k].time <= scenes[n].time + last.dt
                /\ scenes[n].timelineEvents[k].time <= Elapsed
          /\ \E k \in 1..Len(scenes[n].timelineEvents) :
                scenes[n].timelineEvents[k].fired
          /\ \E e \in Elements(scenes[n].entities) : e.vx # 0

====
